---- MODULE Spec2Model ----
(***************************************************************************)
(* Emission-line fitting of DESI spectra: the fitters of fit_lines.py as   *)
(* they are called from emline_fitting.fit_spectra_iteration.              *)
(*                                                                         *)
(* Fixed-point units.  Wavelengths (means, rest wavelengths, tie offsets)  *)
(* are in milli-Angstrom; widths (stddev) in centi-Angstrom; velocity      *)
(* dispersions in 0.1 km/s; amplitudes and reduced chi-squares in          *)
(* hundredths; del_rchi2 in tenths of a percent.                           *)
(*                                                                         *)
(* The Levenberg-Marquardt fit is a nondeterministic choice: every free    *)
(* parameter takes a value its bounds admit, then every tied parameter is  *)
(* recomputed from its tie function, in parameter order.                   *)
(***************************************************************************)
EXTENDS Integers, Sequences, FiniteSets, TLC

VARIABLES pc, fit_cont, fitter, sii_bestfit, loc, ret,
          window, exc,      \* the window of a fitter call, the exception raised
          args, result,     \* a call of a function of emline_params
          mc                \* a run of emline_fitting.fit_emline_spectra

vars == << pc, fit_cont, fitter, sii_bestfit, loc, ret,
           window, exc, args, result, mc >>

\* what the fitters of fit_lines never touch
others == << args, result, mc >>

-----------------------------------------------------------------------------
(* Bounds of the model: the size of the fitting window and the values the  *)
(* optimizer may return for the free parameters.                           *)

NPoints == 40

AmpVals == {50, 100}
ContVals == {3}
MeanShifts == {0, 500}
SiiStdVals == {85, 290}
SiiOutStdVals == {160, 400}
OiiiStdVals == {60, 100}
OiiiOutStdVals == {120, 600}
HbBroadStdVals == {100, 200, 400, 800}
HaBroadStdVals == {150, 278, 279, 600}
RchiNoBroadVals == {1000}
RchiBroadVals == {700, 799, 800, 801, 1000}
RchiVals == {100}

-----------------------------------------------------------------------------
(* Astropy models: an optional Const1D continuum, named Gaussian1D         *)
(* components, and the sets of tied and fixed parameters.                  *)

NoCont == [name |-> "", amplitude |-> 0]

NoModel == [cont |-> NoCont, g |-> [x \in {} |-> 0], tied |-> {}, fixed |-> {}]

Gaussian1D(amplitude, mean, stddev) ==
    [amplitude |-> amplitude, mean |-> mean, stddev |-> stddev]

Const1D(fc, name, amplitude) ==
    IF fc THEN [name |-> name, amplitude |-> amplitude] ELSE NoCont

Names(m) == DOMAIN m.g

n_submodels(m) ==
    Cardinality(Names(m)) + (IF m.cont.name = "" THEN 0 ELSE 1)

\* parameters that the fitter varies: neither tied nor fixed
NFreeParams(m) ==
    3 * Cardinality(Names(m)) + (IF m.cont.name = "" THEN 0 ELSE 1)
      - Cardinality(m.tied \cup m.fixed)

-----------------------------------------------------------------------------
(* measure_fits                                                            *)

C_KMS == 299792

\* sigma [0.1 km/s] = stddev / mean * c
lamspace_to_velspace(stddev, mean) == (stddev * C_KMS) \div (mean \div 100)

\* stddev [cA] = sigma / c * mean
velspace_to_lamspace(sigma, mean) == (sigma * (mean \div 100)) \div C_KMS

\* floating-point values that are not finite
PosInf == 2000000000
NegInf == -2000000000
NaN == -2000000001

\* a / b rounded down, for b # 0 of either sign
FloorDiv(a, b) == IF b > 0 THEN a \div b ELSE (-a) \div (-b)

\* sum((obs - model)^2 * ivar) / (n_points - n_free_params)
calculate_red_chi2(chi2, n_points, n_free_params) ==
    IF n_points = n_free_params
    THEN (IF chi2 = 0 THEN NaN ELSE PosInf)
    ELSE FloorDiv(chi2, n_points - n_free_params)

\* the number of pixels of the window of the current call
NPts == window.n_points

\* the weighted sum of squared residuals of a fit: r times the correct
\* number of degrees of freedom when that is positive, r otherwise
Chi2Sum(r, m) ==
    IF NPts > NFreeParams(m) THEN r * (NPts - NFreeParams(m)) ELSE r

\* (mean_a / mean_b) * stddev
\* the quotient of two floats: a zero divisor gives nan or an infinity
ScaleStd(mean_a, mean_b, stddev) ==
    IF mean_b = 0
    THEN (IF mean_a * stddev = 0 THEN NaN
          ELSE IF mean_a * stddev > 0 THEN PosInf ELSE NegInf)
    ELSE ((mean_a \div 100) * stddev) \div (mean_b \div 100)

InBounds(S, lo) == {s \in S : s >= lo}

-----------------------------------------------------------------------------
(* fit_sii_lines                                                           *)

SII6716 == 6718294
SII6731 == 6732673

tie_mean_sii_one(mean6716) == mean6716 + 14329

tie_mean_sii_two(mean6716) == mean6716 + 14379

tie_std_sii(stddev6716, mean6731, mean6716) ==
    ScaleStd(mean6731, mean6716, stddev6716)

\* (amp6731 / amp6716) * amp6716_out in floats: 0/0 is nan, x/0 is inf,
\* inf * 0 is nan
tie_amp_sii(amp6731, amp6716, amp6716_out) ==
    IF amp6716 = 0
    THEN (IF amp6731 = 0 \/ amp6716_out = 0 THEN NaN ELSE PosInf)
    ELSE (amp6731 * amp6716_out) \div amp6716

\* the fitted one-component model: free amplitude, mean, stddev of sii6716,
\* free amplitude of sii6731, free continuum
sii_one_fit(fc, c, a6716, a6731, dm, s) ==
    LET mean6716 == SII6716 + dm
        mean6731 == tie_mean_sii_one(mean6716)
    IN [cont  |-> Const1D(fc, "sii_cont", c),
        g     |-> ("sii6716" :> Gaussian1D(a6716, mean6716, s)) @@
                  ("sii6731" :> Gaussian1D(a6731, mean6731,
                                   tie_std_sii(s, mean6731, mean6716))),
        tied  |-> {<<"sii6731", "mean">>, <<"sii6731", "stddev">>},
        fixed |-> {}]

\* the fits with the two amplitudes equal
sii_one_model(fc, c, a, dm, s) == sii_one_fit(fc, c, a, a, dm, s)

sii_one_n_free_params(fc) == IF fc THEN 5 ELSE 4

fit_sii_one_component(fc, c, a, dm, s, r) ==
    LET gfit_1comp == sii_one_model(fc, c, a, dm, s)
        n == sii_one_n_free_params(fc)
    IN [gfit |-> gfit_1comp,
        rchi2 |-> calculate_red_chi2(Chi2Sum(r, gfit_1comp), NPts, n),
        n_free_params |-> n]

sii_two_model(fc, c, a, dm, s, a_out, s_out) ==
    LET mean6716 == SII6716 + dm
        mean6731 == tie_mean_sii_two(mean6716)
        mean6716_out == SII6716 + dm
        mean6731_out == tie_mean_sii_two(mean6716_out)
    IN [cont  |-> Const1D(fc, "sii_cont", c),
        g     |-> ("sii6716" :> Gaussian1D(a, mean6716, s)) @@
                  ("sii6731" :> Gaussian1D(a, mean6731,
                                   tie_std_sii(s, mean6731, mean6716))) @@
                  ("sii6716_out" :> Gaussian1D(a_out, mean6716_out, s_out)) @@
                  ("sii6731_out" :> Gaussian1D(tie_amp_sii(a, a, a_out),
                                   mean6731_out,
                                   tie_std_sii(s_out, mean6731_out, mean6716_out))),
        tied  |-> {<<"sii6731", "mean">>, <<"sii6731", "stddev">>,
                   <<"sii6731_out", "mean">>, <<"sii6731_out", "stddev">>,
                   <<"sii6731_out", "amplitude">>},
        fixed |-> {}]

sii_two_n_free_params(fc) == IF fc THEN 8 ELSE 7

fit_sii_two_components(fc, c, a, dm, s, a_out, s_out, r) ==
    LET gfit_2comp == sii_two_model(fc, c, a, dm, s, a_out, s_out)
        n == sii_two_n_free_params(fc)
    IN [gfit |-> gfit_2comp,
        rchi2 |-> calculate_red_chi2(Chi2Sum(r, gfit_2comp), NPts, n),
        n_free_params |-> n]

-----------------------------------------------------------------------------
(* fit_oiii_lines                                                          *)

OIII4959 == 4960295
OIII5007 == 5008239

tie_mean_oiii(mean4959) == mean4959 + 47934

tie_amp_oiii(amp4959) == (amp4959 * 298) \div 100

tie_std_oiii(stddev4959, mean5007, mean4959) ==
    ScaleStd(mean5007, mean4959, stddev4959)

oiii_one_model(fc, c, a, dm, s) ==
    LET mean4959 == OIII4959 + dm
        mean5007 == tie_mean_oiii(mean4959)
    IN [cont  |-> Const1D(fc, "oiii_cont", c),
        g     |-> ("oiii4959" :> Gaussian1D(a, mean4959, s)) @@
                  ("oiii5007" :> Gaussian1D(tie_amp_oiii(a), mean5007,
                                   tie_std_oiii(s, mean5007, mean4959))),
        tied  |-> {<<"oiii5007", "mean">>, <<"oiii5007", "amplitude">>,
                   <<"oiii5007", "stddev">>},
        fixed |-> {}]

oiii_one_n_free_params(fc) == IF fc THEN 4 ELSE 3

fit_oiii_one_component(fc, c, a, dm, s, r) ==
    LET gfit_1comp == oiii_one_model(fc, c, a, dm, s)
        n == oiii_one_n_free_params(fc)
    IN [gfit |-> gfit_1comp,
        rchi2 |-> calculate_red_chi2(Chi2Sum(r, gfit_1comp), NPts, n),
        n_free_params |-> n]

oiii_two_model(fc, c, a, dm, s, a_out, dm_out, s_out) ==
    LET mean4959 == OIII4959 + dm
        mean5007 == tie_mean_oiii(mean4959)
        mean4959_out == OIII4959 + dm_out
        mean5007_out == tie_mean_oiii(mean4959_out)
    IN [cont  |-> Const1D(fc, "oiii_cont", c),
        g     |-> ("oiii4959" :> Gaussian1D(a, mean4959, s)) @@
                  ("oiii5007" :> Gaussian1D(tie_amp_oiii(a), mean5007,
                                   tie_std_oiii(s, mean5007, mean4959))) @@
                  ("oiii4959_out" :> Gaussian1D(a_out, mean4959_out, s_out)) @@
                  ("oiii5007_out" :> Gaussian1D(tie_amp_oiii(a_out), mean5007_out,
                                   tie_std_oiii(s_out, mean5007_out, mean4959_out))),
        tied  |-> {<<"oiii5007", "mean">>, <<"oiii5007", "amplitude">>,
                   <<"oiii5007", "stddev">>,
                   <<"oiii5007_out", "mean">>, <<"oiii5007_out", "amplitude">>,
                   <<"oiii5007_out", "stddev">>},
        fixed |-> {}]

oiii_two_n_free_params(fc) == IF fc THEN 7 ELSE 6

fit_oiii_two_components(fc, c, a, dm, s, a_out, dm_out, s_out, r) ==
    LET gfit_2comp == oiii_two_model(fc, c, a, dm, s, a_out, dm_out, s_out)
        n == oiii_two_n_free_params(fc)
    IN [gfit |-> gfit_2comp,
        rchi2 |-> calculate_red_chi2(Chi2Sum(r, gfit_2comp), NPts, n),
        n_free_params |-> n]

-----------------------------------------------------------------------------
(* The broad-component decision shared by fit_hb_line and fit_nii_ha_lines *)

FracTemp == 60

HAmpVals == {100}

FreeStd(bounds) == {bounds[1], bounds[2]}

sigma(m, name) == lamspace_to_velspace(m.g[name].stddev, m.g[name].mean)

\* ((rchi2_no_broad - rchi2_broad)/rchi2_no_broad)*100, in tenths of a percent
del_rchi2(rchi2_no_broad, rchi2_broad) ==
    IF NaN \in {rchi2_no_broad, rchi2_broad} THEN NaN
    ELSE IF rchi2_no_broad = PosInf THEN NaN
    ELSE IF rchi2_broad = PosInf
         THEN (IF rchi2_no_broad < 0 THEN PosInf ELSE NegInf)
    ELSE IF rchi2_no_broad = 0
         THEN (IF rchi2_broad < 0 THEN PosInf
               ELSE IF rchi2_broad > 0 THEN NegInf ELSE NaN)
    ELSE FloorDiv((rchi2_no_broad - rchi2_broad) * 1000, rchi2_no_broad)

RECURSIVE InsertSorted(_, _)
InsertSorted(seq, x) ==
    IF seq = << >> THEN << x >>
    ELSE IF x <= Head(seq) THEN << x >> \o seq
    ELSE << Head(seq) >> \o InsertSorted(Tail(seq), x)

RECURSIVE np_sort(_)
np_sort(seq) ==
    IF seq = << >> THEN << >> ELSE InsertSorted(np_sort(Tail(seq)), Head(seq))

AppendIf(seq, cond, bit) == IF cond THEN Append(seq, bit) ELSE seq

Bits(seq) == {seq[i] : i \in DOMAIN seq}

\* the template dispersion converted back at the template's own wavelength
template_bounds_at_template(sii, name, frac_temp, rest) ==
    LET temp_std == sii.g[name].stddev
        temp_std_kms == lamspace_to_velspace(temp_std, sii.g[name].mean)
        min_std_kms == temp_std_kms - ((frac_temp * temp_std_kms) \div 100)
        max_std_kms == temp_std_kms + ((frac_temp * temp_std_kms) \div 100)
    IN << velspace_to_lamspace(min_std_kms, sii.g[name].mean),
          velspace_to_lamspace(max_std_kms, sii.g[name].mean) >>

\* the template bounds of a free narrow or outflow width
template_bounds(sii, name, frac_temp, rest) ==
    LET temp_std == sii.g[name].stddev
        temp_std_kms == lamspace_to_velspace(temp_std, sii.g[name].mean)
        min_std_kms == temp_std_kms - ((frac_temp * temp_std_kms) \div 100)
        max_std_kms == temp_std_kms + ((frac_temp * temp_std_kms) \div 100)
    IN << velspace_to_lamspace(min_std_kms, rest),
          velspace_to_lamspace(max_std_kms, rest) >>

\* what a fitter returns, given both fits and the decision
Select(accept, g_nb, r_nb, n_nb, g_b, r_b, n_b, flag_bits, n_dof) ==
    [loc |-> [gfit_no_broad |-> g_nb, gfit_broad |-> g_b,
              rchi2_no_broad |-> r_nb, rchi2_broad |-> r_b,
              n_free_no_broad |-> n_nb, n_free_broad |-> n_b],
     ret |-> IF accept
             THEN [gfit |-> g_b, rchi2 |-> r_b,
                   flag_bits |-> flag_bits, n_dof |-> n_dof,
                   n_free_params |-> n_b]
             ELSE [gfit |-> g_nb, rchi2 |-> r_nb,
                   flag_bits |-> flag_bits, n_dof |-> n_dof,
                   n_free_params |-> n_nb]]

-----------------------------------------------------------------------------
(* fit_hb_line                                                             *)

HB_REST == 4862683

\* flags of the four Hbeta fitters: the fitter's own bit, then 4, 5, 9
hb_flag_bits(flag_bits, bit, del, sig_hb_b, sig_hb_n) ==
    np_sort(AppendIf(AppendIf(AppendIf(Append(flag_bits, bit),
                del >= 200, 4),
                sig_hb_b < sig_hb_n, 5),
                sig_hb_n < 400, 9))

\* Fix sigma of Hb narrow (outflow) to [SII]
tie_std_hb(mean_hb, sii, name) ==
    ScaleStd(mean_hb, sii.g[name].mean, sii.g[name].stddev)

\* ---- fit_free_one_component

hb_free_one_model(fc, c, n, with_b, b) ==
    [cont  |-> Const1D(fc, "hb_cont", c),
     g     |-> IF with_b THEN ("hb_n" :> n) @@ ("hb_b" :> b) ELSE ("hb_n" :> n),
     tied  |-> {},
     fixed |-> {}]

hb_free_one_n_free_no_broad(fc) == IF fc THEN 4 ELSE 3

hb_free_one_n_free_broad(fc) == IF fc THEN 7 ELSE 6

hb_free_one_accept_strict(del, sig_hb_b, sig_hb_n) ==
    (del > 200) /\ (sig_hb_b > sig_hb_n) /\ (sig_hb_n >= 400)

hb_free_one_accept(del, sig_hb_b, sig_hb_n) ==
    (del >= 200) /\ (sig_hb_b > sig_hb_n) /\ (sig_hb_n >= 400)

hb_free_one_n_dof(accept, fc) ==
    IF accept THEN (IF fc THEN 7 ELSE 6) ELSE (IF fc THEN 4 ELSE 3)

HbFreeOneOutcomes(sii, frac_temp) ==
    LET bn == template_bounds(sii, "sii6716", frac_temp, HB_REST)
    IN [c : ContVals, a : HAmpVals,
        nb_dm : MeanShifts, nb_s : FreeStd(bn),
        b_dm : MeanShifts, b_s : FreeStd(bn), b_sb : InBounds(HbBroadStdVals, 100),
        r_nb : RchiNoBroadVals, r_b : RchiBroadVals]

fit_hb_free_one_component(sii, frac_temp, fc, o) ==
    LET gfit_no_broad == hb_free_one_model(fc, o.c,
                            Gaussian1D(o.a, HB_REST + o.nb_dm, o.nb_s), FALSE,
                            Gaussian1D(0, 0, 0))
        n_nb == hb_free_one_n_free_no_broad(fc)
        rchi2_no_broad == calculate_red_chi2(Chi2Sum(o.r_nb, gfit_no_broad), NPts, n_nb)
        gfit_broad == hb_free_one_model(fc, o.c,
                            Gaussian1D(o.a, HB_REST + o.b_dm, o.b_s), TRUE,
                            Gaussian1D(o.a, HB_REST, o.b_sb))
        n_b == hb_free_one_n_free_broad(fc)
        rchi2_broad == calculate_red_chi2(Chi2Sum(o.r_b, gfit_broad), NPts, n_b)
        del == del_rchi2(rchi2_no_broad, rchi2_broad)
        sig_hb_n == sigma(gfit_broad, "hb_n")
        sig_hb_b == sigma(gfit_broad, "hb_b")
        flag_bits == hb_flag_bits(<< >>, 0, del, sig_hb_b, sig_hb_n)
        accept == hb_free_one_accept(del, sig_hb_b, sig_hb_n)
    IN Select(accept, gfit_no_broad, rchi2_no_broad, n_nb,
              gfit_broad, rchi2_broad, n_b, flag_bits,
              hb_free_one_n_dof(accept, fc))

\* ---- fit_free_two_components

hb_two_model(fc, c, n, out, with_b, b, tied, fixed) ==
    [cont  |-> Const1D(fc, "hb_cont", c),
     g     |-> IF with_b
               THEN ("hb_n" :> n) @@ ("hb_out" :> out) @@ ("hb_b" :> b)
               ELSE ("hb_n" :> n) @@ ("hb_out" :> out),
     tied  |-> tied,
     fixed |-> fixed]

hb_free_two_n_free_no_broad(fc) == IF fc THEN 7 ELSE 6

hb_free_two_n_free_broad(fc) == IF fc THEN 10 ELSE 9

hb_free_two_swap_never(gfit_broad) == gfit_broad

\* If broad-sigma < outflow-sigma -- exchange the gaussians
hb_free_two_swap(gfit_broad) ==
    IF sigma(gfit_broad, "hb_b") < sigma(gfit_broad, "hb_out")
    THEN [cont  |-> NoCont,
          g     |-> ("hb_n" :> gfit_broad.g["hb_n"]) @@
                    ("hb_out" :> gfit_broad.g["hb_b"]) @@
                    ("hb_b" :> gfit_broad.g["hb_out"]),
          tied  |-> {},
          fixed |-> {}]
    ELSE gfit_broad

hb_free_two_swap_bits(gfit_broad) ==
    AppendIf(<< >>, sigma(gfit_broad, "hb_b") < sigma(gfit_broad, "hb_out"), 6)

hb_free_two_accept(del, sig_hb_b, sig_hb_n) ==
    (del >= 200) /\ (sig_hb_b > sig_hb_n) /\ (sig_hb_n >= 400)

hb_free_two_n_dof(accept, fc) ==
    IF accept THEN (IF fc THEN 10 ELSE 9) ELSE (IF fc THEN 7 ELSE 6)

HbFreeTwoOutcomes(sii, frac_temp) ==
    LET bn == template_bounds(sii, "sii6716", frac_temp, HB_REST)
        bo == template_bounds(sii, "sii6716_out", frac_temp, HB_REST)
    IN [c : ContVals, a : HAmpVals,
        nb_dm : MeanShifts, nb_s : FreeStd(bn), nb_so : FreeStd(bo),
        b_dm : MeanShifts, b_s : FreeStd(bn), b_so : FreeStd(bo),
        b_sb : InBounds(HbBroadStdVals, 100),
        r_nb : RchiNoBroadVals, r_b : RchiBroadVals]

fit_hb_free_two_components(sii, frac_temp, fc, o) ==
    LET gfit_no_broad == hb_two_model(fc, o.c,
                            Gaussian1D(o.a, HB_REST + o.nb_dm, o.nb_s),
                            Gaussian1D(o.a, HB_REST + o.nb_dm, o.nb_so), FALSE,
                            Gaussian1D(0, 0, 0), {}, {})
        n_nb == hb_free_two_n_free_no_broad(fc)
        rchi2_no_broad == calculate_red_chi2(Chi2Sum(o.r_nb, gfit_no_broad), NPts, n_nb)
        gfit_fitted == hb_two_model(fc, o.c,
                            Gaussian1D(o.a, HB_REST + o.b_dm, o.b_s),
                            Gaussian1D(o.a, HB_REST + o.b_dm, o.b_so), TRUE,
                            Gaussian1D(o.a, HB_REST, o.b_sb), {}, {})
        n_b == hb_free_two_n_free_broad(fc)
        rchi2_broad == calculate_red_chi2(Chi2Sum(o.r_b, gfit_fitted), NPts, n_b)
        gfit_broad == hb_free_two_swap(gfit_fitted)
        del == del_rchi2(rchi2_no_broad, rchi2_broad)
        sig_hb_n == sigma(gfit_broad, "hb_n")
        sig_hb_b == sigma(gfit_broad, "hb_b")
        flag_bits == hb_flag_bits(hb_free_two_swap_bits(gfit_fitted), 2,
                                  del, sig_hb_b, sig_hb_n)
        accept == hb_free_two_accept(del, sig_hb_b, sig_hb_n)
    IN Select(accept, gfit_no_broad, rchi2_no_broad, n_nb,
              gfit_broad, rchi2_broad, n_b, flag_bits,
              hb_free_two_n_dof(accept, fc))

\* ---- fit_fixed_one_component

hb_fixed_one_model(sii, fc, c, a, mean_n, with_b, b) ==
    [cont  |-> Const1D(fc, "hb_cont", c),
     g     |-> LET n == Gaussian1D(a, mean_n, tie_std_hb(mean_n, sii, "sii6716"))
               IN IF with_b THEN ("hb_n" :> n) @@ ("hb_b" :> b) ELSE ("hb_n" :> n),
     tied  |-> {<<"hb_n", "stddev">>},
     fixed |-> {<<"hb_n", "stddev">>}]

hb_fixed_one_n_free_no_broad(fc) == IF fc THEN 3 ELSE 2

hb_fixed_one_n_free_broad(fc) == IF fc THEN 6 ELSE 5

hb_fixed_one_accept_del_only(del, sig_hb_b, sig_hb_n) ==
    (del >= 200)

hb_fixed_one_accept(del, sig_hb_b, sig_hb_n) ==
    (del >= 200) /\ (sig_hb_b > sig_hb_n)

hb_fixed_one_n_dof(accept, fc) ==
    IF accept THEN (IF fc THEN 6 ELSE 5) ELSE (IF fc THEN 3 ELSE 2)

HbFixedOutcomes ==
    [c : ContVals, a : HAmpVals, nb_dm : MeanShifts,
     b_dm : MeanShifts, b_sb : InBounds(HbBroadStdVals, 100),
     r_nb : RchiNoBroadVals, r_b : RchiBroadVals]

fit_hb_fixed_one_component(sii, fc, o) ==
    LET gfit_no_broad == hb_fixed_one_model(sii, fc, o.c, o.a, HB_REST + o.nb_dm,
                            FALSE, Gaussian1D(0, 0, 0))
        n_nb == hb_fixed_one_n_free_no_broad(fc)
        rchi2_no_broad == calculate_red_chi2(Chi2Sum(o.r_nb, gfit_no_broad), NPts, n_nb)
        gfit_broad == hb_fixed_one_model(sii, fc, o.c, o.a, HB_REST + o.b_dm,
                            TRUE, Gaussian1D(o.a, HB_REST, o.b_sb))
        n_b == hb_fixed_one_n_free_broad(fc)
        rchi2_broad == calculate_red_chi2(Chi2Sum(o.r_b, gfit_broad), NPts, n_b)
        del == del_rchi2(rchi2_no_broad, rchi2_broad)
        sig_hb_n == sigma(gfit_broad, "hb_n")
        sig_hb_b == sigma(gfit_broad, "hb_b")
        flag_bits == hb_flag_bits(<< >>, 1, del, sig_hb_b, sig_hb_n)
        accept == hb_fixed_one_accept(del, sig_hb_b, sig_hb_n)
    IN Select(accept, gfit_no_broad, rchi2_no_broad, n_nb,
              gfit_broad, rchi2_broad, n_b, flag_bits,
              hb_fixed_one_n_dof(accept, fc))

\* ---- fit_fixed_two_components

hb_fixed_two_model(sii, fc, c, a, mean_n, mean_out, with_b, b) ==
    hb_two_model(fc, c,
        Gaussian1D(a, mean_n, tie_std_hb(mean_n, sii, "sii6716")),
        Gaussian1D(a, mean_out, tie_std_hb(mean_out, sii, "sii6716_out")),
        with_b, b,
        {<<"hb_n", "stddev">>, <<"hb_out", "stddev">>},
        {<<"hb_n", "stddev">>, <<"hb_out", "stddev">>})

hb_fixed_two_n_free_no_broad(fc) == IF fc THEN 5 ELSE 4

hb_fixed_two_n_free_broad(fc) == IF fc THEN 8 ELSE 7

hb_fixed_two_accept(del, sig_hb_b, sig_hb_n) ==
    (del >= 200) /\ (sig_hb_b > sig_hb_n)

hb_fixed_two_n_dof(accept, fc) ==
    IF accept THEN (IF fc THEN 8 ELSE 7) ELSE (IF fc THEN 5 ELSE 4)

fit_hb_fixed_two_components(sii, fc, o) ==
    LET gfit_no_broad == hb_fixed_two_model(sii, fc, o.c, o.a, HB_REST + o.nb_dm,
                            HB_REST, FALSE, Gaussian1D(0, 0, 0))
        n_nb == hb_fixed_two_n_free_no_broad(fc)
        rchi2_no_broad == calculate_red_chi2(Chi2Sum(o.r_nb, gfit_no_broad), NPts, n_nb)
        gfit_broad == hb_fixed_two_model(sii, fc, o.c, o.a, HB_REST + o.b_dm,
                            HB_REST, TRUE, Gaussian1D(o.a, HB_REST, o.b_sb))
        n_b == hb_fixed_two_n_free_broad(fc)
        rchi2_broad == calculate_red_chi2(Chi2Sum(o.r_b, gfit_broad), NPts, n_b)
        del == del_rchi2(rchi2_no_broad, rchi2_broad)
        sig_hb_n == sigma(gfit_broad, "hb_n")
        sig_hb_b == sigma(gfit_broad, "hb_b")
        flag_bits == hb_flag_bits(<< >>, 3, del, sig_hb_b, sig_hb_n)
        accept == hb_fixed_two_accept(del, sig_hb_b, sig_hb_n)
    IN Select(accept, gfit_no_broad, rchi2_no_broad, n_nb,
              gfit_broad, rchi2_broad, n_b, flag_bits,
              hb_fixed_two_n_dof(accept, fc))

-----------------------------------------------------------------------------
(* fit_nii_ha_lines                                                        *)

NII6548 == 6549852
NII6583 == 6585277
HA_REST == 6564312

tie_mean_nii(mean6548) == mean6548 + 35425

tie_amp_nii(amp6548) == (amp6548 * 296) \div 100

\* Tie standard deviations of the [NII] components to [SII]
tie_std_nii(mean_nii, sii, name) ==
    ScaleStd(mean_nii, sii.g[name].mean, sii.g[name].stddev)

\* Tie standard deviation of Ha (outflow) to [SII]
tie_std_ha(mean_ha, sii, name) ==
    ScaleStd(mean_ha, sii.g[name].mean, sii.g[name].stddev)

\* fwhm_ha_b = 2.355*sig_ha_b, in 0.0001 km/s
fwhm(sig_ha_b) == 2355 * sig_ha_b

\* flags of the four [NII]+Ha fitters: the fitter's own bit, then 4, 5, 10
ha_flag_bits(flag_bits, bit, del, sig_ha_b, sig_ha_n) ==
    np_sort(AppendIf(AppendIf(AppendIf(Append(flag_bits, bit),
                del >= 200, 4),
                sig_ha_b < sig_ha_n, 5),
                sig_ha_n < 400, 10))

\* g_nii of the one-component fitters: nii6548 + nii6583
g_nii_one(sii, a, dm) ==
    LET mean6548 == NII6548 + dm
        mean6583 == tie_mean_nii(mean6548)
    IN ("nii6548" :> Gaussian1D(a, mean6548, tie_std_nii(mean6548, sii, "sii6716"))) @@
       ("nii6583" :> Gaussian1D(tie_amp_nii(a), mean6583,
                                tie_std_nii(mean6583, sii, "sii6716")))

NiiOneTied ==
    {<<"nii6583", "mean">>, <<"nii6583", "amplitude">>,
     <<"nii6548", "stddev">>, <<"nii6583", "stddev">>}

NiiOneFixed == {<<"nii6548", "stddev">>, <<"nii6583", "stddev">>}

\* g_nii of the two-component fitters: adds nii6548_out + nii6583_out
g_nii_two(sii, a, dm, a_out, dm_out) ==
    LET mean6548_out == NII6548 + dm_out
        mean6583_out == tie_mean_nii(mean6548_out)
    IN g_nii_one(sii, a, dm) @@
       ("nii6548_out" :> Gaussian1D(a_out, mean6548_out,
                                tie_std_nii(mean6548_out, sii, "sii6716_out"))) @@
       ("nii6583_out" :> Gaussian1D(tie_amp_nii(a_out), mean6583_out,
                                tie_std_nii(mean6583_out, sii, "sii6716_out")))

NiiTwoTied ==
    NiiOneTied \cup
    {<<"nii6583_out", "mean">>, <<"nii6583_out", "amplitude">>,
     <<"nii6548_out", "stddev">>, <<"nii6583_out", "stddev">>}

NiiTwoFixed ==
    NiiOneFixed \cup {<<"nii6548_out", "stddev">>, <<"nii6583_out", "stddev">>}

\* ---- fit_free_ha_one_component

ha_free_one_model(sii, fc, c, a_nii, dm, n, with_b, b) ==
    [cont  |-> Const1D(fc, "nii_ha_cont", c),
     g     |-> IF with_b
               THEN g_nii_one(sii, a_nii, dm) @@ ("ha_n" :> n) @@ ("ha_b" :> b)
               ELSE g_nii_one(sii, a_nii, dm) @@ ("ha_n" :> n),
     tied  |-> NiiOneTied,
     fixed |-> NiiOneFixed]

ha_free_one_n_free_no_broad(fc) == IF fc THEN 6 ELSE 5

ha_free_one_n_free_broad(fc) == IF fc THEN 9 ELSE 8

ha_free_one_accept_no_fwhm(del, sig_ha_b, sig_ha_n, fwhm_ha_b) ==
    (del >= 200) /\ (sig_ha_b > sig_ha_n) /\ (sig_ha_n >= 400)

ha_free_one_accept(del, sig_ha_b, sig_ha_n, fwhm_ha_b) ==
    (del >= 200) /\ (sig_ha_b > sig_ha_n) /\ (sig_ha_n >= 400)
      /\ (fwhm_ha_b >= 3000000)

ha_free_one_n_dof(accept, fc) ==
    IF accept THEN (IF fc THEN 9 ELSE 8) ELSE (IF fc THEN 6 ELSE 5)

HaFreeOneOutcomes(sii, frac_temp) ==
    LET bn == template_bounds(sii, "sii6716", frac_temp, HA_REST)
    IN [c : ContVals, a : HAmpVals, a_nii : AmpVals,
        nb_dm : MeanShifts, nb_s : FreeStd(bn),
        b_dm : MeanShifts, b_s : FreeStd(bn), b_sb : InBounds(HaBroadStdVals, 150),
        r_nb : RchiNoBroadVals, r_b : RchiBroadVals]

fit_nii_ha_free_ha_one_component(sii, frac_temp, fc, o) ==
    LET gfit_no_broad == ha_free_one_model(sii, fc, o.c, o.a, o.nb_dm,
                            Gaussian1D(o.a, HA_REST + o.nb_dm, o.nb_s), FALSE,
                            Gaussian1D(0, 0, 0))
        n_nb == ha_free_one_n_free_no_broad(fc)
        rchi2_no_broad == calculate_red_chi2(Chi2Sum(o.r_nb, gfit_no_broad), NPts, n_nb)
        gfit_broad == ha_free_one_model(sii, fc, o.c, o.a_nii, o.b_dm,
                            Gaussian1D(o.a, HA_REST + o.b_dm, o.b_s), TRUE,
                            Gaussian1D(o.a, HA_REST, o.b_sb))
        n_b == ha_free_one_n_free_broad(fc)
        rchi2_broad == calculate_red_chi2(Chi2Sum(o.r_b, gfit_broad), NPts, n_b)
        del == del_rchi2(rchi2_no_broad, rchi2_broad)
        sig_ha_b == sigma(gfit_broad, "ha_b")
        sig_ha_n == sigma(gfit_broad, "ha_n")
        flag_bits == ha_flag_bits(<< >>, 0, del, sig_ha_b, sig_ha_n)
        accept == ha_free_one_accept(del, sig_ha_b, sig_ha_n, fwhm(sig_ha_b))
    IN Select(accept, gfit_no_broad, rchi2_no_broad, n_nb,
              gfit_broad, rchi2_broad, n_b, flag_bits,
              ha_free_one_n_dof(accept, fc))

\* ---- fit_free_ha_two_components

ha_two_model(fc, c, g_nii, n, out, with_b, b, tied, fixed) ==
    [cont  |-> Const1D(fc, "nii_ha_cont", c),
     g     |-> IF with_b
               THEN g_nii @@ ("ha_n" :> n) @@ ("ha_out" :> out) @@ ("ha_b" :> b)
               ELSE g_nii @@ ("ha_n" :> n) @@ ("ha_out" :> out),
     tied  |-> tied,
     fixed |-> fixed]

ha_free_two_n_free_no_broad(fc) == IF fc THEN 11 ELSE 10

ha_free_two_n_free_broad(fc) == IF fc THEN 14 ELSE 13

\* If broad-sigma < outflow-sigma -- exchange the gaussians
ha_free_two_swap(gfit_broad) ==
    IF sigma(gfit_broad, "ha_b") < sigma(gfit_broad, "ha_out")
    THEN [cont  |-> NoCont,
          g     |-> ("ha_n" :> gfit_broad.g["ha_n"]) @@
                    ("ha_out" :> gfit_broad.g["ha_b"]) @@
                    ("ha_b" :> gfit_broad.g["ha_out"]),
          tied  |-> {},
          fixed |-> {}]
    ELSE gfit_broad

ha_free_two_swap_bits(gfit_broad) ==
    AppendIf(<< >>, sigma(gfit_broad, "ha_b") < sigma(gfit_broad, "ha_out"), 6)

ha_free_two_accept(del, sig_ha_b, sig_ha_n, fwhm_ha_b) ==
    (del >= 200) /\ (sig_ha_b > sig_ha_n) /\ (sig_ha_n >= 400)
      /\ (fwhm_ha_b >= 3000000)

ha_free_two_n_dof(accept, fc) ==
    IF accept THEN (IF fc THEN 14 ELSE 13) ELSE (IF fc THEN 11 ELSE 10)

HaFreeTwoOutcomes(sii, frac_temp) ==
    LET bn == template_bounds(sii, "sii6716", frac_temp, HA_REST)
        bo == template_bounds(sii, "sii6716_out", frac_temp, HA_REST)
    IN [c : ContVals, a : HAmpVals, a_nii : AmpVals,
        nb_dm : MeanShifts, nb_s : FreeStd(bn), nb_so : FreeStd(bo),
        b_dm : MeanShifts, b_s : FreeStd(bn), b_so : FreeStd(bo),
        b_sb : InBounds(HaBroadStdVals, 150),
        r_nb : RchiNoBroadVals, r_b : RchiBroadVals]

fit_nii_ha_free_ha_two_components(sii, frac_temp, fc, o) ==
    LET gfit_no_broad == ha_two_model(fc, o.c,
                            g_nii_two(sii, o.a, o.nb_dm, o.a, o.nb_dm),
                            Gaussian1D(o.a, HA_REST + o.nb_dm, o.nb_s),
                            Gaussian1D(o.a, HA_REST + o.nb_dm, o.nb_so), FALSE,
                            Gaussian1D(0, 0, 0), NiiTwoTied, NiiTwoFixed)
        n_nb == ha_free_two_n_free_no_broad(fc)
        rchi2_no_broad == calculate_red_chi2(Chi2Sum(o.r_nb, gfit_no_broad), NPts, n_nb)
        gfit_fitted == ha_two_model(fc, o.c,
                            g_nii_two(sii, o.a_nii, o.b_dm, o.a, 0),
                            Gaussian1D(o.a, HA_REST + o.b_dm, o.b_s),
                            Gaussian1D(o.a, HA_REST + o.b_dm, o.b_so), TRUE,
                            Gaussian1D(o.a, HA_REST, o.b_sb), NiiTwoTied, NiiTwoFixed)
        n_b == ha_free_two_n_free_broad(fc)
        rchi2_broad == calculate_red_chi2(Chi2Sum(o.r_b, gfit_fitted), NPts, n_b)
        gfit_broad == ha_free_two_swap(gfit_fitted)
        del == del_rchi2(rchi2_no_broad, rchi2_broad)
        sig_ha_b == sigma(gfit_broad, "ha_b")
        sig_ha_n == sigma(gfit_broad, "ha_n")
        flag_bits == ha_flag_bits(ha_free_two_swap_bits(gfit_fitted), 2,
                                  del, sig_ha_b, sig_ha_n)
        accept == ha_free_two_accept(del, sig_ha_b, sig_ha_n, fwhm(sig_ha_b))
    IN Select(accept, gfit_no_broad, rchi2_no_broad, n_nb,
              gfit_broad, rchi2_broad, n_b, flag_bits,
              ha_free_two_n_dof(accept, fc))

\* ---- fit_fixed_one_component

ha_fixed_one_model(sii, fc, c, a_nii, dm, a, mean_n, with_b, b) ==
    [cont  |-> Const1D(fc, "nii_ha_cont", c),
     g     |-> LET n == Gaussian1D(a, mean_n, tie_std_ha(mean_n, sii, "sii6716"))
               IN IF with_b
                  THEN g_nii_one(sii, a_nii, dm) @@ ("ha_n" :> n) @@ ("ha_b" :> b)
                  ELSE g_nii_one(sii, a_nii, dm) @@ ("ha_n" :> n),
     tied  |-> NiiOneTied \cup {<<"ha_n", "stddev">>},
     fixed |-> NiiOneFixed \cup {<<"ha_n", "stddev">>}]

ha_fixed_one_n_free_no_broad(fc) == IF fc THEN 5 ELSE 4

ha_fixed_one_n_free_broad(fc) == IF fc THEN 8 ELSE 7

ha_fixed_one_accept(del, sig_ha_b, sig_ha_n, fwhm_ha_b) ==
    (del >= 200) /\ (sig_ha_b > sig_ha_n) /\ (fwhm_ha_b >= 3000000)

ha_fixed_one_n_dof(accept, fc) ==
    IF accept THEN (IF fc THEN 8 ELSE 7) ELSE (IF fc THEN 5 ELSE 4)

HaFixedOutcomes ==
    [c : ContVals, a : HAmpVals, a_nii : AmpVals, nb_dm : MeanShifts,
     b_dm : MeanShifts, b_sb : InBounds(HaBroadStdVals, 150),
     r_nb : RchiNoBroadVals, r_b : RchiBroadVals]

fit_nii_ha_fixed_one_component(sii, fc, o) ==
    LET gfit_no_broad == ha_fixed_one_model(sii, fc, o.c, o.a, o.nb_dm, o.a,
                            HA_REST + o.nb_dm, FALSE, Gaussian1D(0, 0, 0))
        n_nb == ha_fixed_one_n_free_no_broad(fc)
        rchi2_no_broad == calculate_red_chi2(Chi2Sum(o.r_nb, gfit_no_broad), NPts, n_nb)
        gfit_broad == ha_fixed_one_model(sii, fc, o.c, o.a_nii, o.b_dm, o.a,
                            HA_REST + o.b_dm, TRUE, Gaussian1D(o.a, HA_REST, o.b_sb))
        n_b == ha_fixed_one_n_free_broad(fc)
        rchi2_broad == calculate_red_chi2(Chi2Sum(o.r_b, gfit_broad), NPts, n_b)
        del == del_rchi2(rchi2_no_broad, rchi2_broad)
        sig_ha_b == sigma(gfit_broad, "ha_b")
        sig_ha_n == sigma(gfit_broad, "ha_n")
        flag_bits == ha_flag_bits(<< >>, 1, del, sig_ha_b, sig_ha_n)
        accept == ha_fixed_one_accept(del, sig_ha_b, sig_ha_n, fwhm(sig_ha_b))
    IN Select(accept, gfit_no_broad, rchi2_no_broad, n_nb,
              gfit_broad, rchi2_broad, n_b, flag_bits,
              ha_fixed_one_n_dof(accept, fc))

\* ---- fit_fixed_two_components

ha_fixed_two_model(sii, fc, c, a_nii, dm, a, mean_n, mean_out, with_b, b) ==
    ha_two_model(fc, c, g_nii_two(sii, a_nii, dm, a, 0),
        Gaussian1D(a, mean_n, tie_std_ha(mean_n, sii, "sii6716")),
        Gaussian1D(a, mean_out, tie_std_ha(mean_out, sii, "sii6716_out")),
        with_b, b,
        NiiTwoTied \cup {<<"ha_n", "stddev">>, <<"ha_out", "stddev">>},
        NiiTwoFixed \cup {<<"ha_n", "stddev">>, <<"ha_out", "stddev">>})

ha_fixed_two_n_free_no_broad(fc) == IF fc THEN 9 ELSE 8

ha_fixed_two_n_free_broad(fc) == IF fc THEN 12 ELSE 11

ha_fixed_two_accept(del, sig_ha_b, sig_ha_n, fwhm_ha_b) ==
    (del >= 200) /\ (sig_ha_b > sig_ha_n) /\ (fwhm_ha_b >= 3000000)

ha_fixed_two_n_dof_off(accept, fc) ==
    IF accept THEN (IF fc THEN 12 ELSE 12) ELSE (IF fc THEN 9 ELSE 8)

ha_fixed_two_n_dof(accept, fc) ==
    IF accept THEN (IF fc THEN 12 ELSE 11) ELSE (IF fc THEN 9 ELSE 8)

fit_nii_ha_fixed_two_components(sii, fc, o) ==
    LET gfit_no_broad == ha_fixed_two_model(sii, fc, o.c, o.a, o.nb_dm, o.a,
                            HA_REST + o.nb_dm, HA_REST, FALSE, Gaussian1D(0, 0, 0))
        n_nb == ha_fixed_two_n_free_no_broad(fc)
        rchi2_no_broad == calculate_red_chi2(Chi2Sum(o.r_nb, gfit_no_broad), NPts, n_nb)
        gfit_broad == ha_fixed_two_model(sii, fc, o.c, o.a_nii, o.b_dm, o.a,
                            HA_REST + o.b_dm, HA_REST, TRUE,
                            Gaussian1D(o.a, HA_REST, o.b_sb))
        n_b == ha_fixed_two_n_free_broad(fc)
        rchi2_broad == calculate_red_chi2(Chi2Sum(o.r_b, gfit_broad), NPts, n_b)
        del == del_rchi2(rchi2_no_broad, rchi2_broad)
        sig_ha_b == sigma(gfit_broad, "ha_b")
        sig_ha_n == sigma(gfit_broad, "ha_n")
        flag_bits == ha_flag_bits(<< >>, 3, del, sig_ha_b, sig_ha_n)
        accept == ha_fixed_two_accept(del, sig_ha_b, sig_ha_n, fwhm(sig_ha_b))
    IN Select(accept, gfit_no_broad, rchi2_no_broad, n_nb,
              gfit_broad, rchi2_broad, n_b, flag_bits,
              ha_fixed_two_n_dof(accept, fc))

-----------------------------------------------------------------------------
NoLoc == [gfit_no_broad |-> NoModel, gfit_broad |-> NoModel,
          rchi2_no_broad |-> 0, rchi2_broad |-> 0,
          n_free_no_broad |-> 0, n_free_broad |-> 0]

NoRet == [gfit |-> NoModel, rchi2 |-> 0, flag_bits |-> << >>,
          n_dof |-> 0, n_free_params |-> 0]

\* the sub-ranges of a window in which a fitter looks for a flux maximum
SubRanges == {"oiii4959", "oiii5007", "nii6548", "nii6583", "ha"}

\* a window with NPoints pixels, some of them in every sub-range
RegularWindow == [n_points |-> NPoints, sub |-> SubRanges]

NoArgs == [f |-> "none"]

NoResult == [f |-> "none"]

NoRun == [pc |-> "none"]

Init ==
    /\ pc = "idle"
    /\ fit_cont \in BOOLEAN
    /\ fitter = "none"
    /\ sii_bestfit = NoModel
    /\ loc = NoLoc
    /\ ret = NoRet
    /\ window = RegularWindow
    /\ exc = "none"
    /\ args = NoArgs
    /\ result = NoResult
    /\ mc = NoRun

\* np.max of an empty array, max of an empty sequence
ValueError(unchanged) ==
    /\ pc' = "raised"
    /\ exc' = "ValueError"
    /\ UNCHANGED unchanged

sii_dof_one(fc) == IF fc THEN 5 ELSE 4

sii_dof_two(fc) == IF fc THEN 8 ELSE 7

\* fit_spectra_iteration, the [SII] fit with a given n_sii
SiiFitOne ==
    /\ pc = "idle"
    /\ fitter' = "fit_sii_lines.fit_one_component"
    /\ IF window.n_points > 0
       THEN /\ pc' = "returned" /\ exc' = exc
            /\ \E n_sii \in {2, 3}, c \in ContVals, a \in HAmpVals, dm \in MeanShifts,
                  s \in InBounds(SiiStdVals, 80), r \in RchiVals :
                 LET f == fit_sii_one_component(fit_cont, c, a, dm, s, r)
                 IN /\ ret' = [gfit |-> f.gfit, rchi2 |-> f.rchi2, flag_bits |-> << >>,
                               n_dof |-> sii_dof_one(fit_cont),
                               n_free_params |-> f.n_free_params]
                    /\ sii_bestfit' = f.gfit
       ELSE ValueError(<< sii_bestfit, loc, ret >>)
    /\ UNCHANGED << fit_cont, loc, window, others >>

SiiFitTwo ==
    /\ pc = "idle"
    /\ fitter' = "fit_sii_lines.fit_two_components"
    /\ IF window.n_points > 0
       THEN /\ pc' = "returned" /\ exc' = exc
            /\ \E n_sii \in {4, 5}, c \in ContVals, a \in HAmpVals, dm \in MeanShifts,
                  s \in InBounds(SiiStdVals, 80), s_out \in InBounds(SiiOutStdVals, 160),
                  r \in RchiVals :
                 LET f == fit_sii_two_components(fit_cont, c, a, dm, s, a \div 2, s_out, r)
                 IN /\ ret' = [gfit |-> f.gfit, rchi2 |-> f.rchi2, flag_bits |-> << >>,
                               n_dof |-> sii_dof_two(fit_cont),
                               n_free_params |-> f.n_free_params]
                    /\ sii_bestfit' = f.gfit
       ELSE ValueError(<< sii_bestfit, loc, ret >>)
    /\ UNCHANGED << fit_cont, loc, window, others >>

oiii_dof_one(fc) == IF fc THEN 4 ELSE 3

oiii_dof_two(fc) == IF fc THEN 7 ELSE 6

OiiiFitOne ==
    /\ pc = "idle"
    /\ fitter' = "fit_oiii_lines.fit_one_component"
    /\ IF {"oiii4959", "oiii5007"} \subseteq window.sub
       THEN /\ pc' = "returned" /\ exc' = exc
            /\ \E n_oiii \in {2, 3}, c \in ContVals, a \in AmpVals, dm \in MeanShifts,
                  s \in InBounds(OiiiStdVals, 60), r \in RchiVals :
                 LET f == fit_oiii_one_component(fit_cont, c, a, dm, s, r)
                 IN ret' = [gfit |-> f.gfit, rchi2 |-> f.rchi2, flag_bits |-> << >>,
                            n_dof |-> oiii_dof_one(fit_cont),
                            n_free_params |-> f.n_free_params]
       ELSE ValueError(<< ret >>)
    /\ UNCHANGED << fit_cont, sii_bestfit, loc, window, others >>

OiiiFitTwo ==
    /\ pc = "idle"
    /\ fitter' = "fit_oiii_lines.fit_two_components"
    /\ IF {"oiii4959", "oiii5007"} \subseteq window.sub
       THEN /\ pc' = "returned" /\ exc' = exc
            /\ \E n_oiii \in {4, 5}, c \in ContVals, a \in AmpVals, dm \in MeanShifts,
                  s \in InBounds(OiiiStdVals, 60), a_out \in AmpVals, dm_out \in MeanShifts,
                  s_out \in InBounds(OiiiOutStdVals, 120), r \in RchiVals :
                 LET f == fit_oiii_two_components(fit_cont, c, a, dm, s, a_out, dm_out, s_out, r)
                 IN ret' = [gfit |-> f.gfit, rchi2 |-> f.rchi2, flag_bits |-> << >>,
                            n_dof |-> oiii_dof_two(fit_cont),
                            n_free_params |-> f.n_free_params]
       ELSE ValueError(<< ret >>)
    /\ UNCHANGED << fit_cont, sii_bestfit, loc, window, others >>

\* the Hbeta fitters, called with the [SII] best fit as template
HbFreeOne ==
    /\ pc = "idle"
    /\ "sii6716" \in Names(sii_bestfit)
    /\ fitter' = "fit_hb_line.fit_free_one_component"
    /\ IF window.n_points > 0
       THEN /\ pc' = "returned" /\ exc' = exc
            /\ \E o \in HbFreeOneOutcomes(sii_bestfit, FracTemp) :
                 LET f == fit_hb_free_one_component(sii_bestfit, FracTemp, fit_cont, o)
                 IN loc' = f.loc /\ ret' = f.ret
       ELSE ValueError(<< loc, ret >>)
    /\ UNCHANGED << fit_cont, sii_bestfit, window, others >>

HbFreeTwo ==
    /\ pc = "idle"
    /\ {"sii6716", "sii6716_out"} \subseteq Names(sii_bestfit)
    /\ fitter' = "fit_hb_line.fit_free_two_components"
    /\ IF window.n_points > 0
       THEN /\ pc' = "returned" /\ exc' = exc
            /\ \E o \in HbFreeTwoOutcomes(sii_bestfit, FracTemp) :
                 LET f == fit_hb_free_two_components(sii_bestfit, FracTemp, fit_cont, o)
                 IN loc' = f.loc /\ ret' = f.ret
       ELSE ValueError(<< loc, ret >>)
    /\ UNCHANGED << fit_cont, sii_bestfit, window, others >>

HbFixedOne ==
    /\ pc = "idle"
    /\ "sii6716" \in Names(sii_bestfit)
    /\ fitter' = "fit_hb_line.fit_fixed_one_component"
    /\ IF window.n_points > 0
       THEN /\ pc' = "returned" /\ exc' = exc
            /\ \E o \in HbFixedOutcomes :
                 LET f == fit_hb_fixed_one_component(sii_bestfit, fit_cont, o)
                 IN loc' = f.loc /\ ret' = f.ret
       ELSE ValueError(<< loc, ret >>)
    /\ UNCHANGED << fit_cont, sii_bestfit, window, others >>

HbFixedTwo ==
    /\ pc = "idle"
    /\ {"sii6716", "sii6716_out"} \subseteq Names(sii_bestfit)
    /\ fitter' = "fit_hb_line.fit_fixed_two_components"
    /\ IF window.n_points > 0
       THEN /\ pc' = "returned" /\ exc' = exc
            /\ \E o \in HbFixedOutcomes :
                 LET f == fit_hb_fixed_two_components(sii_bestfit, fit_cont, o)
                 IN loc' = f.loc /\ ret' = f.ret
       ELSE ValueError(<< loc, ret >>)
    /\ UNCHANGED << fit_cont, sii_bestfit, window, others >>

\* the [NII]+Ha fitters, called with the [SII] best fit as template
HaFreeOne ==
    /\ pc = "idle"
    /\ "sii6716" \in Names(sii_bestfit)
    /\ fitter' = "fit_nii_ha_lines.fit_free_ha_one_component"
    /\ IF {"nii6548", "nii6583", "ha"} \subseteq window.sub
       THEN /\ pc' = "returned" /\ exc' = exc
            /\ \E o \in HaFreeOneOutcomes(sii_bestfit, FracTemp) :
                 LET f == fit_nii_ha_free_ha_one_component(sii_bestfit, FracTemp, fit_cont, o)
                 IN loc' = f.loc /\ ret' = f.ret
       ELSE ValueError(<< loc, ret >>)
    /\ UNCHANGED << fit_cont, sii_bestfit, window, others >>

HaFreeTwo ==
    /\ pc = "idle"
    /\ {"sii6716", "sii6716_out"} \subseteq Names(sii_bestfit)
    /\ fitter' = "fit_nii_ha_lines.fit_free_ha_two_components"
    /\ IF {"nii6548", "nii6583", "ha"} \subseteq window.sub
       THEN /\ pc' = "returned" /\ exc' = exc
            /\ \E o \in HaFreeTwoOutcomes(sii_bestfit, FracTemp) :
                 LET f == fit_nii_ha_free_ha_two_components(sii_bestfit, FracTemp, fit_cont, o)
                 IN loc' = f.loc /\ ret' = f.ret
       ELSE ValueError(<< loc, ret >>)
    /\ UNCHANGED << fit_cont, sii_bestfit, window, others >>

HaFixedOne ==
    /\ pc = "idle"
    /\ "sii6716" \in Names(sii_bestfit)
    /\ fitter' = "fit_nii_ha_lines.fit_fixed_one_component"
    /\ IF {"nii6548", "nii6583", "ha"} \subseteq window.sub
       THEN /\ pc' = "returned" /\ exc' = exc
            /\ \E o \in HaFixedOutcomes :
                 LET f == fit_nii_ha_fixed_one_component(sii_bestfit, fit_cont, o)
                 IN loc' = f.loc /\ ret' = f.ret
       ELSE ValueError(<< loc, ret >>)
    /\ UNCHANGED << fit_cont, sii_bestfit, window, others >>

HaFixedTwo ==
    /\ pc = "idle"
    /\ {"sii6716", "sii6716_out"} \subseteq Names(sii_bestfit)
    /\ fitter' = "fit_nii_ha_lines.fit_fixed_two_components"
    /\ IF {"nii6548", "nii6583", "ha"} \subseteq window.sub
       THEN /\ pc' = "returned" /\ exc' = exc
            /\ \E o \in HaFixedOutcomes :
                 LET f == fit_nii_ha_fixed_two_components(sii_bestfit, fit_cont, o)
                 IN loc' = f.loc /\ ret' = f.ret
       ELSE ValueError(<< loc, ret >>)
    /\ UNCHANGED << fit_cont, sii_bestfit, window, others >>

\* the caller takes the result; the next fit starts with fresh locals
NextCall ==
    /\ pc = "returned"
    /\ pc' = "idle"
    /\ fitter' = "none"
    /\ loc' = NoLoc
    /\ ret' = NoRet
    /\ UNCHANGED << fit_cont, sii_bestfit, window, exc, others >>

Next ==
    \/ SiiFitOne
    \/ SiiFitTwo
    \/ OiiiFitOne
    \/ OiiiFitTwo
    \/ HbFreeOne
    \/ HbFreeTwo
    \/ HbFixedOne
    \/ HbFixedTwo
    \/ HaFreeOne
    \/ HaFreeTwo
    \/ HaFixedOne
    \/ HaFixedTwo
    \/ NextCall

Spec == Init /\ [][Next]_vars

-----------------------------------------------------------------------------
(* The same fitters called on degenerate windows                           *)

SmallPoints == 5

\* no pixel at all
EmptyWindow == [n_points |-> 0, sub |-> {}]

\* no pixel within 4959-4961 A nor within 6583-6586 A
GapWindow == [n_points |-> NPoints, sub |-> SubRanges \ {"oiii4959", "nii6583"}]

\* fewer pixels than most models have free parameters
SmallWindow == [n_points |-> SmallPoints, sub |-> SubRanges]

DegWindows == {EmptyWindow, GapWindow, SmallWindow}

DegInit ==
    /\ pc = "idle"
    /\ fit_cont \in BOOLEAN
    /\ fitter = "none"
    /\ sii_bestfit = NoModel
    /\ loc = NoLoc
    /\ ret = NoRet
    /\ window \in DegWindows
    /\ exc = "none"
    /\ args = NoArgs
    /\ result = NoResult
    /\ mc = NoRun

DegSpec == DegInit /\ [][Next]_vars
-----------------------------------------------------------------------------
(* emline_params.get_parameters                                            *)

\* the lists of expected components of fit_spectra_iteration
hb_models == << "hb_n", "hb_out", "hb_b" >>
oiii_models == << "oiii4959", "oiii4959_out", "oiii5007", "oiii5007_out" >>
nii_ha_models == << "nii6548", "nii6548_out", "nii6583", "nii6583_out",
                    "ha_n", "ha_out", "ha_b" >>
sii_models == << "sii6716", "sii6716_out", "sii6731", "sii6731_out" >>

Quantities == {"amplitude", "mean", "std", "sigma", "flux"}

\* the characters of a name
Chars ==
    ("hb_n" :> << "h", "b", "_", "n" >>) @@
    ("hb_out" :> << "h", "b", "_", "o", "u", "t" >>) @@
    ("hb_b" :> << "h", "b", "_", "b" >>) @@
    ("oiii4959" :> << "o", "i", "i", "i", "4", "9", "5", "9" >>) @@
    ("oiii4959_out" :> << "o", "i", "i", "i", "4", "9", "5", "9", "_", "o", "u", "t" >>) @@
    ("oiii5007" :> << "o", "i", "i", "i", "5", "0", "0", "7" >>) @@
    ("oiii5007_out" :> << "o", "i", "i", "i", "5", "0", "0", "7", "_", "o", "u", "t" >>) @@
    ("nii6548" :> << "n", "i", "i", "6", "5", "4", "8" >>) @@
    ("nii6548_out" :> << "n", "i", "i", "6", "5", "4", "8", "_", "o", "u", "t" >>) @@
    ("nii6583" :> << "n", "i", "i", "6", "5", "8", "3" >>) @@
    ("nii6583_out" :> << "n", "i", "i", "6", "5", "8", "3", "_", "o", "u", "t" >>) @@
    ("ha_n" :> << "h", "a", "_", "n" >>) @@
    ("ha_out" :> << "h", "a", "_", "o", "u", "t" >>) @@
    ("ha_b" :> << "h", "a", "_", "b" >>) @@
    ("sii6716" :> << "s", "i", "i", "6", "7", "1", "6" >>) @@
    ("sii6716_out" :> << "s", "i", "i", "6", "7", "1", "6", "_", "o", "u", "t" >>) @@
    ("sii6731" :> << "s", "i", "i", "6", "7", "3", "1" >>) @@
    ("sii6731_out" :> << "s", "i", "i", "6", "7", "3", "1", "_", "o", "u", "t" >>) @@
    ("hb" :> << "h", "b" >>)

\* Python's  a in b  for two strings
IsSubstring(a, b) ==
    \E i \in 0 .. (Len(b) - Len(a)) : SubSeq(b, i + 1, i + Len(a)) = a

\* Python's  x in seq  for a tuple of names
InTuple(x, names) == x \in names

\* amplitude * stddev * sqrt(2 pi), in hundredths
compute_emline_flux(amp, std) ==
    IF NaN \in {amp, std} THEN NaN ELSE (amp * std * 2507) \div 100000

\* gfit.submodel_names of a compound model
submodel_names(gfit) ==
    Names(gfit) \cup (IF gfit.cont.name = "" THEN {} ELSE {gfit.cont.name})

\* gfit.name of a model that is a single component
model_name(gfit) == CHOOSE x \in submodel_names(gfit) : TRUE

\* the parameters of the component of that name
parameters(gfit, name) ==
    IF name = gfit.cont.name
    THEN << gfit.cont.amplitude >>
    ELSE << gfit.g[name].amplitude, gfit.g[name].mean, gfit.g[name].stddev >>

\* model in names, with names the tuple of a compound model and the string
\* of a single one
name_in_names(gfit, model) ==
    IF n_submodels(gfit) > 1
    THEN InTuple(model, submodel_names(gfit))
    ELSE IsSubstring(Chars[model], Chars[model_name(gfit)])

\* amp, mean, std = ....parameters
unpacked(gfit, model) ==
    IF n_submodels(gfit) = 1
    THEN parameters(gfit, model_name(gfit))
    ELSE parameters(gfit, model)

get_parameters(gfit, models) ==
    LET expected == {models[i] : i \in DOMAIN models}
        found == {model \in expected : name_in_names(gfit, model)}
        value(model, q) ==
            IF model \in found
            THEN LET p == unpacked(gfit, model)
                 IN CASE q = "amplitude" -> p[1]
                      [] q = "mean" -> p[2]
                      [] q = "std" -> p[3]
                      [] q = "sigma" -> lamspace_to_velspace(p[3], p[2])
                      [] q = "flux" -> compute_emline_flux(p[1], p[3])
            ELSE 0
    IN IF \E model \in found : Len(unpacked(gfit, model)) # 3
       THEN [f |-> "get_parameters", exc |-> "ValueError",
             params |-> << >>]
       ELSE [f |-> "get_parameters", exc |-> "none",
             params |-> [k \in expected \X Quantities |-> value(k[1], k[2])]]

\* models that the fitters return
ParamGaussians ==
    [n |-> Gaussian1D(100, HB_REST, 60), out |-> Gaussian1D(50, HB_REST, 300),
     b |-> Gaussian1D(30, HB_REST, 200)]

ParamModels ==
    {hb_free_one_model(fc, 3, ParamGaussians.n, wb, ParamGaussians.b) :
        fc \in BOOLEAN, wb \in BOOLEAN}
    \cup {hb_two_model(fc, 3, ParamGaussians.n, ParamGaussians.out, wb,
                       ParamGaussians.b, {}, {}) : fc \in BOOLEAN, wb \in BOOLEAN}
    \cup {hb_free_two_swap(hb_two_model(TRUE, 3, ParamGaussians.n,
                       ParamGaussians.out, TRUE, ParamGaussians.b, {}, {}))}
    \cup {sii_one_model(fc, 3, 100, 0, s) : fc \in BOOLEAN, s \in SiiStdVals}
    \cup {sii_two_model(fc, 3, 100, 0, s, 50, 400) :
            fc \in BOOLEAN, s \in SiiStdVals}
    \cup {oiii_one_model(fc, 3, 100, 0, 60) : fc \in BOOLEAN}
    \cup {oiii_two_model(fc, 3, 100, 0, 60, 50, 0, 120) : fc \in BOOLEAN}

\* the lists of the pipeline, and a list with a name that is no component
ParamLists == {hb_models, oiii_models, nii_ha_models, sii_models, << "hb" >>}

ParamInit ==
    /\ pc = "idle"
    /\ fit_cont \in BOOLEAN
    /\ fitter = "none"
    /\ sii_bestfit = NoModel
    /\ loc = NoLoc
    /\ ret = NoRet
    /\ window = RegularWindow
    /\ exc = "none"
    /\ args \in [f : {"get_parameters"}, gfit : ParamModels, models : ParamLists]
    /\ result = NoResult
    /\ mc = NoRun

GetParameters ==
    /\ args.f = "get_parameters"
    /\ result = NoResult
    /\ result' = get_parameters(args.gfit, args.models)
    /\ UNCHANGED << pc, fit_cont, fitter, sii_bestfit, loc, ret, window, exc, args, mc >>

ParamSpec == ParamInit /\ [][GetParameters]_vars

-----------------------------------------------------------------------------
(* emline_params.get_bestfit_parameters, for one component of one complex: *)
(* a row holds the component's five columns and the complex's continuum.   *)

MaxRows == 3

RECURSIVE SqrtBetween(_, _, _)
SqrtBetween(x, lo, hi) ==
    IF lo = hi THEN lo
    ELSE LET mid == (lo + hi + 1) \div 2
         IN IF mid * mid <= x THEN SqrtBetween(x, mid, hi)
            ELSE SqrtBetween(x, lo, mid - 1)

np_sqrt(x) ==
    IF x = NaN \/ x < 0 THEN NaN
    ELSE SqrtBetween(x, 0, IF x < 46340 THEN x ELSE 46340)

np_isclose(x, y) == x = y

Square(x) == IF x = NaN THEN NaN ELSE x * x

RECURSIVE SumSeq(_)
SumSeq(arr) == IF arr = << >> THEN 0 ELSE Head(arr) + SumSeq(Tail(arr))

NotNaN(x) == x # NaN

\* the sum of the entries that are not NaN, not divided by their number
np_nanmean_sum(arr) ==
    LET vals == SelectSeq(arr, NotNaN)
    IN IF vals = << >> THEN NaN ELSE SumSeq(vals)

\* the mean of the entries that are not NaN; NaN when there is none
np_nanmean(arr) ==
    LET vals == SelectSeq(arr, NotNaN)
    IN IF vals = << >> THEN NaN ELSE SumSeq(vals) \div Len(vals)

\* the standard deviation of the entries that are not NaN
np_nanstd(arr) ==
    LET vals == SelectSeq(arr, NotNaN)
        mu == np_nanmean(arr)
        dev == [i \in DOMAIN vals |-> vals[i] - mu]
        \* large deviations are squared in units of 100
        k == IF \E i \in DOMAIN vals : dev[i] > 20000 \/ dev[i] < -20000
             THEN 100 ELSE 1
    IN IF vals = << >> THEN NaN
       ELSE k * np_sqrt(SumSeq([i \in DOMAIN vals |-> Square(dev[i] \div k)])
                          \div Len(vals))

\* np.where(~cond, np.nan, arr)
np_where_not(cond, arr) ==
    [i \in DOMAIN arr |-> IF cond[i] THEN arr[i] ELSE NaN]

column(table, name) == [i \in DOMAIN table |-> table[i][name]]

np_all_close_zero(arr) == \A i \in DOMAIN arr : np_isclose(arr[i], 0)

\* the error of a product or ratio: relative errors added in quadrature
rel_quadrature(value, a, a_err, b, b_err) ==
    IF NaN \in {value, a, a_err, b, b_err} \/ a = 0 \/ b = 0 THEN NaN
    ELSE np_sqrt(Square((value * a_err) \div a) + Square((value * b_err) \div b))

AllZero ==
    [amplitude |-> 0, amplitude_err |-> 0, mean |-> 0, mean_err |-> 0,
     std |-> 0, std_err |-> 0, sigma |-> 0, sigma_err |-> 0,
     flux |-> 0, flux_err |-> 0, flux_fits |-> 0, flux_err_fits |-> 0,
     sigma_fits |-> 0, sigma_err_fits |-> 0]

Aggregated ==
    {"amplitude", "amplitude_err", "mean", "mean_err", "std", "std_err",
     "sigma", "sigma_err", "flux", "flux_err", "flux_fits", "flux_err_fits",
     "sigma_fits", "sigma_err_fits"}

get_bestfit_component(table) ==
    LET amplitude_arr == column(table, "amplitude")
        mean_arr == column(table, "mean")
        std_arr == column(table, "std")
        flux_arr == column(table, "flux")
        sigma_arr == column(table, "sigma")
        allzero == \/ np_all_close_zero(amplitude_arr)
                   \/ np_all_close_zero(mean_arr)
                   \/ np_all_close_zero(std_arr)
        cond == [i \in DOMAIN table |->
                   amplitude_arr[i] > 0 /\ mean_arr[i] > 0 /\ std_arr[i] > 0]
        amp == np_nanmean(np_where_not(cond, amplitude_arr))
        amp_err == np_nanstd(np_where_not(cond, amplitude_arr))
        mean == np_nanmean(np_where_not(cond, mean_arr))
        mean_err == np_nanstd(np_where_not(cond, mean_arr))
        var == [i \in DOMAIN table |-> Square(np_where_not(cond, std_arr)[i])]
        std == np_sqrt(np_nanmean(var))
        std_err == np_sqrt(np_nanstd(var))
        flux == compute_emline_flux(amp, std)
        sig == IF NaN \in {std, mean} THEN NaN ELSE lamspace_to_velspace(std, mean)
    IN IF allzero THEN AllZero
       ELSE [amplitude |-> amp, amplitude_err |-> amp_err,
             mean |-> mean, mean_err |-> mean_err,
             std |-> std, std_err |-> std_err,
             sigma |-> sig,
             sigma_err |-> rel_quadrature(sig, std, std_err, mean, mean_err),
             flux |-> flux,
             flux_err |-> rel_quadrature(flux, amp, amp_err, std, std_err),
             flux_fits |-> np_nanmean(np_where_not(cond, flux_arr)),
             flux_err_fits |-> np_nanstd(np_where_not(cond, flux_arr)),
             sigma_fits |-> np_nanmean(np_where_not(cond, sigma_arr)),
             sigma_err_fits |-> np_nanstd(np_where_not(cond, sigma_arr))]

\* Continuum computation
get_bestfit_continuum(table) ==
    LET cont_col == column(table, "continuum")
        nonzero == [i \in DOMAIN table |-> ~np_isclose(cont_col[i], 0)]
    IN IF np_all_close_zero(cont_col)
       THEN [continuum |-> 0, continuum_err |-> 0]
       ELSE [continuum |-> np_nanmean(np_where_not(nonzero, cont_col)),
             continuum_err |-> np_nanstd(np_where_not(nonzero, cont_col))]

get_bestfit_parameters(table) ==
    [f |-> "get_bestfit_parameters",
     params |-> get_bestfit_component(table),
     cont |-> get_bestfit_continuum(table)]

\* the row get_parameters writes for a component of the model
RowOf(a, m, sd, c) ==
    [amplitude |-> a, mean |-> m, std |-> sd,
     sigma |-> lamspace_to_velspace(sd, m),
     flux |-> compute_emline_flux(a, sd), continuum |-> c]

\* the row get_parameters writes for a component the model lacks
ZeroRow(c) ==
    [amplitude |-> 0, mean |-> 0, std |-> 0, sigma |-> 0, flux |-> 0,
     continuum |-> c]

\* rows: component absent, amplitude at its bound 0, two detections, a
\* detection without continuum, an amplitude that is not a number
AggRows ==
    {ZeroRow(3), RowOf(0, HB_REST, 100, 3), RowOf(100, HB_REST, 100, 3),
     RowOf(300, HB_REST + 500, 200, 5), RowOf(100, HB_REST, 100, 0),
     RowOf(NaN, HB_REST, 100, 3)}

AggTables == UNION {[1 .. n -> AggRows] : n \in 1 .. MaxRows}

AggInit ==
    /\ pc = "idle"
    /\ fit_cont \in BOOLEAN
    /\ fitter = "none"
    /\ sii_bestfit = NoModel
    /\ loc = NoLoc
    /\ ret = NoRet
    /\ window = RegularWindow
    /\ exc = "none"
    /\ args \in [f : {"get_bestfit_parameters"}, table : AggTables]
    /\ result = NoResult
    /\ mc = NoRun

GetBestfitParameters ==
    /\ args.f = "get_bestfit_parameters"
    /\ result = NoResult
    /\ result' = get_bestfit_parameters(args.table)
    /\ UNCHANGED << pc, fit_cont, fitter, sii_bestfit, loc, ret, window, exc, args, mc >>

AggSpec == AggInit /\ [][GetBestfitParameters]_vars

-----------------------------------------------------------------------------
(* emline_fitting.fit_emline_spectra: the fit of the original spectrum,    *)
(* the resampled iterations of fit_spectra_iteration, the aggregation of   *)
(* the stacked table and the final fit.  Percentages are in hundredths.    *)

\* iterations of the loop, 100 in the source
NIter == 2

\* the default of n_sii and n_oiii
None == -1

Max(S) == CHOOSE x \in S : \A y \in S : x >= y

\* the set of the elements of a list
Range(seq) == {seq[i] : i \in DOMAIN seq}

Complexes == {"hb", "oiii", "nii_ha", "sii"}

ContName ==
    [hb |-> "hb_cont", oiii |-> "oiii_cont", nii_ha |-> "nii_ha_cont",
     sii |-> "sii_cont"]

\* reduced chi-squares of the fit with a broad component in an iteration:
\* an improvement of 30 percent, and none
IterRchiBroad == {700, 1000}

\* what the optimizer returns in an iteration: lines at rest, narrow widths
\* at the upper template bound, outflow widths at the lower one
IterOutcomes(S, bn, bo, b_sb) ==
    {o \in S : /\ o.nb_dm = 0 /\ o.b_dm = 0
               /\ o.r_b \in IterRchiBroad
               /\ o.b_sb = b_sb
               /\ ("nb_s" \in DOMAIN o => o.nb_s = bn[2] /\ o.b_s = bn[2])
               /\ ("nb_so" \in DOMAIN o => o.nb_so = bo[1] /\ o.b_so = bo[1])
               /\ ("a_nii" \in DOMAIN o => o.a_nii = Max(AmpVals))}

IterSiiOne(fc) ==
    fit_sii_one_component(fc, Max(ContVals), Max(HAmpVals), 0, Max(SiiStdVals),
                          Max(RchiVals))

IterSiiTwo(fc) ==
    fit_sii_two_components(fc, Max(ContVals), Max(HAmpVals), 0, Max(SiiStdVals),
                           Max(HAmpVals) \div 2, Max(SiiOutStdVals), Max(RchiVals))

IterOiiiOne(fc) ==
    fit_oiii_one_component(fc, Max(ContVals), Max(AmpVals), 0, Max(OiiiStdVals),
                           Max(RchiVals))

IterOiiiTwo(fc) ==
    fit_oiii_two_components(fc, Max(ContVals), Max(AmpVals), 0, Max(OiiiStdVals),
                            Max(AmpVals), 0, Max(OiiiOutStdVals), Max(RchiVals))

\* find_bestfit: the one-component or the two-component fit, with its dof
find_sii_best_fit(fc) ==
    {[gfit |-> IterSiiOne(fc).gfit, n_dof |-> sii_dof_one(fc)],
     [gfit |-> IterSiiTwo(fc).gfit, n_dof |-> sii_dof_two(fc)]}

find_oiii_best_fit(fc) ==
    {[gfit |-> IterOiiiOne(fc).gfit, n_dof |-> oiii_dof_one(fc)],
     [gfit |-> IterOiiiTwo(fc).gfit, n_dof |-> oiii_dof_two(fc)]}

\* find_bestfit: one or two components after the [SII] family, free or
\* fixed widths; the fitter makes the broad-component decision
find_hb_best_fit(sii, fc) ==
    LET bn == template_bounds(sii, "sii6716", FracTemp, HB_REST)
        bo == template_bounds(sii, "sii6716_out", FracTemp, HB_REST)
        b_sb == Max(HbBroadStdVals)
    IN IF "sii6716_out" \in Names(sii)
       THEN {fit_hb_free_two_components(sii, FracTemp, fc, o).ret :
                o \in IterOutcomes(HbFreeTwoOutcomes(sii, FracTemp), bn, bo, b_sb)}
            \cup {fit_hb_fixed_two_components(sii, fc, o).ret :
                o \in IterOutcomes(HbFixedOutcomes, bn, bo, b_sb)}
       ELSE {fit_hb_free_one_component(sii, FracTemp, fc, o).ret :
                o \in IterOutcomes(HbFreeOneOutcomes(sii, FracTemp), bn, bn, b_sb)}
            \cup {fit_hb_fixed_one_component(sii, fc, o).ret :
                o \in IterOutcomes(HbFixedOutcomes, bn, bn, b_sb)}

find_nii_ha_best_fit(sii, fc) ==
    LET bn == template_bounds(sii, "sii6716", FracTemp, HA_REST)
        bo == template_bounds(sii, "sii6716_out", FracTemp, HA_REST)
        b_sb == Max(HaBroadStdVals)
    IN IF "sii6716_out" \in Names(sii)
       THEN {fit_nii_ha_free_ha_two_components(sii, FracTemp, fc, o).ret :
                o \in IterOutcomes(HaFreeTwoOutcomes(sii, FracTemp), bn, bo, b_sb)}
            \cup {fit_nii_ha_fixed_two_components(sii, fc, o).ret :
                o \in IterOutcomes(HaFixedOutcomes, bn, bo, b_sb)}
       ELSE {fit_nii_ha_free_ha_one_component(sii, FracTemp, fc, o).ret :
                o \in IterOutcomes(HaFreeOneOutcomes(sii, FracTemp), bn, bn, b_sb)}
            \cup {fit_nii_ha_fixed_one_component(sii, fc, o).ret :
                o \in IterOutcomes(HaFixedOutcomes, bn, bn, b_sb)}

\* ---- fit_spectra_iteration, from the parameters to the return

\* the continuum alone, the fitted components dropped
with_zero_continuum_refit(name, gfit) ==
    [NoModel EXCEPT !.cont = [name |-> name, amplitude |-> 0]]

\* cont + gfit
with_zero_continuum(name, gfit) ==
    [gfit EXCEPT !.cont = [name |-> name, amplitude |-> 0]]

\* fits, t_params of the return statement, or the exception raised before
iteration_table(gfit, dof, fc) ==
    LET hb_params == get_parameters(gfit.hb, hb_models)
        oiii_params == get_parameters(gfit.oiii, oiii_models)
        nii_ha_params == get_parameters(gfit.nii_ha, nii_ha_models)
        sii_params == get_parameters(gfit.sii, sii_models)
        fits == IF fc = FALSE
                THEN [hb |-> with_zero_continuum("hb_cont", gfit.hb),
                      oiii |-> with_zero_continuum("oiii_cont", gfit.oiii),
                      nii_ha |-> with_zero_continuum("nii_ha_cont", gfit.nii_ha),
                      sii |-> with_zero_continuum("sii_cont", gfit.sii)]
                ELSE gfit
    IN IF \E p \in {hb_params, oiii_params, nii_ha_params, sii_params} :
             p.exc # "none"
       THEN [exc |-> "ValueError", fits |-> gfit, t_params |-> << >>]
       ELSE IF \E k \in Complexes : fits[k].cont.name # ContName[k]
       THEN [exc |-> "IndexError", fits |-> fits, t_params |-> << >>]
       ELSE [exc |-> "none", fits |-> fits,
             t_params |->
               [params |-> hb_params.params @@ oiii_params.params @@
                           nii_ha_params.params @@ sii_params.params,
                continuum |-> [k \in Complexes |-> fits[k].cont.amplitude],
                dof |-> dof]]

\* ---- fit_emline_spectra, after the loop

\* fits_orig[1].n_submodels instead of fits_orig[-1].n_submodels
n_sii_of_oiii(fits) == n_submodels(fits.oiii)

\* fits_orig[-1].n_submodels
n_sii_of(fits) == n_submodels(fits.sii)

\* fits_orig[1].n_submodels
n_oiii_of(fits) == n_submodels(fits.oiii)

\* the columns of a component in the stacked table
component_table(t_fits, name, k) ==
    [i \in DOMAIN t_fits |->
       [amplitude |-> t_fits[i].params[<< name, "amplitude" >>],
        mean |-> t_fits[i].params[<< name, "mean" >>],
        std |-> t_fits[i].params[<< name, "std" >>],
        sigma |-> t_fits[i].params[<< name, "sigma" >>],
        flux |-> t_fits[i].params[<< name, "flux" >>],
        continuum |-> t_fits[i].continuum[k]]]

\* the percent of rows, whatever the flux
per_broad_all(t_fits, name) ==
    (Cardinality({i \in DOMAIN t_fits :
                    t_fits[i].params[<< name, "flux" >>] >= 0}) * 10000)
      \div Len(t_fits)

\* len(t_fits[t_fits[flux] > 0])*100/len(t_fits)
per_broad(t_fits, name) ==
    (Cardinality({i \in DOMAIN t_fits :
                    t_fits[i].params[<< name, "flux" >>] > 0}) * 10000)
      \div Len(t_fits)

\* np.bincount(arr).argmax(): the most frequent value, the smallest of them
np_bincount_argmax(arr) ==
    LET count(v) == Cardinality({i \in DOMAIN arr : arr[i] = v})
    IN CHOOSE v \in Range(arr) :
         \A w \in Range(arr) :
            count(v) > count(w) \/ (count(v) = count(w) /\ v <= w)

\* the dof of a complex with a broad component: both branches take the mode
broad_dof(t_fits, name, k) ==
    LET dofs == [i \in DOMAIN t_fits |-> t_fits[i].dof[k]]
        tsel == {i \in DOMAIN t_fits : t_fits[i].params[<< name, "flux" >>] # 0}
    IN IF tsel = DOMAIN t_fits
       THEN np_bincount_argmax(dofs)
       ELSE np_bincount_argmax(dofs)

construct_model(agg, cont, k, always, groups) ==
    LET present == always \cup
                   UNION {g.names : g \in {h \in groups : agg[h.key].flux # 0}}
    IN [cont  |-> [name |-> ContName[k], amplitude |-> cont[k].continuum],
        g     |-> [n \in present |->
                     Gaussian1D(agg[n].amplitude, agg[n].mean, agg[n].std)],
        tied  |-> {},
        fixed |-> {}]

construct_fits(agg, cont) ==
    [hb |-> construct_model(agg, cont, "hb", {"hb_n"},
               {[key |-> "hb_out", names |-> {"hb_out"}],
                [key |-> "hb_b", names |-> {"hb_b"}]}),
     oiii |-> construct_model(agg, cont, "oiii", {"oiii4959", "oiii5007"},
               {[key |-> "oiii5007_out",
                 names |-> {"oiii4959_out", "oiii5007_out"}]}),
     nii_ha |-> construct_model(agg, cont, "nii_ha",
               {"nii6548", "nii6583", "ha_n"},
               {[key |-> "nii6548_out",
                 names |-> {"nii6548_out", "nii6583_out", "ha_out"}],
                [key |-> "ha_b", names |-> {"ha_b"}]}),
     sii |-> construct_model(agg, cont, "sii", {"sii6716", "sii6731"},
               {[key |-> "sii6716_out",
                 names |-> {"sii6716_out", "sii6731_out"}]})]

ComplexOf(name) ==
    IF name \in Range(hb_models) THEN "hb"
    ELSE IF name \in Range(oiii_models) THEN "oiii"
    ELSE IF name \in Range(nii_ha_models) THEN "nii_ha" ELSE "sii"

AllModels ==
    Range(hb_models) \cup Range(oiii_models) \cup Range(nii_ha_models)
      \cup Range(sii_models)

\* the final record: aggregated parameters, percentages, final fits, dof
final_record(t_fits) ==
    LET agg == [n \in AllModels |->
                  get_bestfit_component(component_table(t_fits, n, ComplexOf(n)))]
        cont == [k \in Complexes |->
                   get_bestfit_continuum(component_table(t_fits,
                       CHOOSE n \in AllModels : ComplexOf(n) = k, k))]
    IN [agg |-> agg,
        cont |-> cont,
        percent_hb_b |-> per_broad(t_fits, "hb_b"),
        percent_ha_b |-> per_broad(t_fits, "ha_b"),
        fits_final |-> construct_fits(agg, cont),
        dof |-> [hb |-> broad_dof(t_fits, "hb_b", "hb"),
                 oiii |-> t_fits[1].dof.oiii,
                 nii_ha |-> broad_dof(t_fits, "ha_b", "nii_ha"),
                 sii |-> t_fits[1].dof.sii]]

\* ---- the run

FitsNone == [hb |-> NoModel, oiii |-> NoModel, nii_ha |-> NoModel, sii |-> NoModel]

DofNone == [hb |-> 0, oiii |-> 0, nii_ha |-> 0, sii |-> 0]

NoTemplate == [hb |-> NoModel, nii_ha |-> NoModel]

NoBranch == [sii |-> "none", oiii |-> "none"]

NoFinal == [percent_hb_b |-> -1]

RunInit ==
    /\ pc = "idle"
    /\ fit_cont \in BOOLEAN
    /\ fitter = "none"
    /\ sii_bestfit = NoModel
    /\ loc = NoLoc
    /\ ret = NoRet
    /\ window = RegularWindow
    /\ exc = "none"
    /\ args = NoArgs
    /\ result = NoResult
    /\ mc = [pc |-> "start", kk |-> -1, n_sii |-> None, n_oiii |-> None,
             ran |-> << >>, branch |-> NoBranch, gfit |-> FitsNone,
             dof |-> DofNone, template |-> NoTemplate,
             fits_orig |-> [oiii |-> NoModel, sii |-> NoModel],
             tables |-> << >>, branches |-> << >>, won |-> << >>,
             final |-> NoFinal]

Untouched == << pc, fit_cont, fitter, sii_bestfit, loc, ret, window, args, result >>

\* fit_spectra_iteration on the original spectrum, n_sii and n_oiii omitted
FitEmlineSpectra ==
    /\ mc.pc = "start"
    /\ mc' = [mc EXCEPT !.pc = "sii"]
    /\ UNCHANGED << Untouched, exc >>

\* a name used before its assignment
UnboundLocalError ==
    /\ mc' = [mc EXCEPT !.pc = "raised"]
    /\ exc' = "UnboundLocalError"

IterSii ==
    /\ mc.pc = "sii"
    /\ IF mc.n_sii \in {2, 3}
       THEN /\ mc' = [mc EXCEPT !.pc = "oiii", !.ran = Append(@, "sii"),
                        !.branch.sii = "one",
                        !.gfit.sii = IterSiiOne(fit_cont).gfit,
                        !.dof.sii = sii_dof_one(fit_cont)]
            /\ exc' = exc
       ELSE IF mc.n_sii \in {4, 5}
       THEN /\ mc' = [mc EXCEPT !.pc = "oiii", !.ran = Append(@, "sii"),
                        !.branch.sii = "two",
                        !.gfit.sii = IterSiiTwo(fit_cont).gfit,
                        !.dof.sii = sii_dof_two(fit_cont)]
            /\ exc' = exc
       ELSE IF mc.n_sii = None
       THEN /\ \E f \in find_sii_best_fit(fit_cont) :
                 mc' = [mc EXCEPT !.pc = "oiii", !.ran = Append(@, "sii"),
                          !.branch.sii = "find",
                          !.gfit.sii = f.gfit, !.dof.sii = f.n_dof]
            /\ exc' = exc
       ELSE UnboundLocalError
    /\ UNCHANGED Untouched

IterOiii ==
    /\ mc.pc = "oiii"
    /\ IF mc.n_oiii \in {2, 3}
       THEN /\ mc' = [mc EXCEPT !.pc = "hb", !.ran = Append(@, "oiii"),
                        !.branch.oiii = "one",
                        !.gfit.oiii = IterOiiiOne(fit_cont).gfit,
                        !.dof.oiii = oiii_dof_one(fit_cont)]
            /\ exc' = exc
       ELSE IF mc.n_oiii \in {4, 5}
       THEN /\ mc' = [mc EXCEPT !.pc = "hb", !.ran = Append(@, "oiii"),
                        !.branch.oiii = "two",
                        !.gfit.oiii = IterOiiiTwo(fit_cont).gfit,
                        !.dof.oiii = oiii_dof_two(fit_cont)]
            /\ exc' = exc
       ELSE IF mc.n_oiii = None
       THEN /\ \E f \in find_oiii_best_fit(fit_cont) :
                 mc' = [mc EXCEPT !.pc = "hb", !.ran = Append(@, "oiii"),
                          !.branch.oiii = "find",
                          !.gfit.oiii = f.gfit, !.dof.oiii = f.n_dof]
            /\ exc' = exc
       ELSE UnboundLocalError
    /\ UNCHANGED Untouched

IterHb ==
    /\ mc.pc = "hb"
    /\ \E f \in find_hb_best_fit(mc.gfit.sii, fit_cont) :
         mc' = [mc EXCEPT !.pc = "nii_ha", !.ran = Append(@, "hb"),
                  !.template.hb = mc.gfit.sii,
                  !.gfit.hb = f.gfit, !.dof.hb = f.n_dof]
    /\ UNCHANGED << Untouched, exc >>

IterNiiHa ==
    /\ mc.pc = "nii_ha"
    /\ \E f \in find_nii_ha_best_fit(mc.gfit.sii, fit_cont) :
         mc' = [mc EXCEPT !.pc = "params", !.ran = Append(@, "nii_ha"),
                  !.template.nii_ha = mc.gfit.sii,
                  !.gfit.nii_ha = f.gfit, !.dof.nii_ha = f.n_dof]
    /\ UNCHANGED << Untouched, exc >>

\* the original call returns: n_sii and n_oiii of the loop; of fits_orig
\* the two elements that are read
ReturnOrig ==
    /\ mc.pc = "params"
    /\ mc.kk = -1
    /\ LET r == iteration_table(mc.gfit, mc.dof, fit_cont)
       IN IF r.exc # "none"
          THEN mc' = [mc EXCEPT !.pc = "raised"] /\ exc' = r.exc
          ELSE /\ mc' = [mc EXCEPT !.pc = "loop", !.kk = 0, !.gfit = r.fits,
                           !.fits_orig = [oiii |-> r.fits.oiii, sii |-> r.fits.sii],
                           !.n_sii = n_sii_of(r.fits),
                           !.n_oiii = n_oiii_of(r.fits)]
               /\ exc' = exc
    /\ UNCHANGED Untouched

\* for kk in range(100): the call of an iteration
LoopCall ==
    /\ mc.pc = "loop"
    /\ mc.kk < NIter
    /\ mc' = [mc EXCEPT !.pc = "sii", !.ran = << >>, !.branch = NoBranch,
                !.gfit = FitsNone, !.dof = DofNone, !.template = NoTemplate]
    /\ UNCHANGED << Untouched, exc >>

\* an iteration returns: tables.append(t_params)
ReturnIter ==
    /\ mc.pc = "params"
    /\ mc.kk >= 0
    /\ LET r == iteration_table(mc.gfit, mc.dof, fit_cont)
       IN IF r.exc # "none"
          THEN mc' = [mc EXCEPT !.pc = "raised"] /\ exc' = r.exc
          ELSE /\ mc' = [mc EXCEPT !.pc = "loop", !.kk = @ + 1, !.gfit = r.fits,
                           !.tables = Append(@, r.t_params),
                           !.branches = Append(@, mc.branch),
                           !.won = Append(@, [hb |-> Names(mc.gfit.hb),
                                              nii_ha |-> Names(mc.gfit.nii_ha)])]
               /\ exc' = exc
    /\ UNCHANGED Untouched

\* vstack, the aggregation, the final fit and its dof
FinalFit ==
    /\ mc.pc = "loop"
    /\ mc.kk = NIter
    /\ mc' = [mc EXCEPT !.pc = "done", !.final = final_record(mc.tables)]
    /\ UNCHANGED << Untouched, exc >>

RunNext ==
    \/ FitEmlineSpectra
    \/ IterSii
    \/ IterOiii
    \/ IterHb
    \/ IterNiiHa
    \/ ReturnOrig
    \/ LoopCall
    \/ ReturnIter
    \/ FinalFit

RunSpec == RunInit /\ [][RunNext]_vars

-----------------------------------------------------------------------------
(* Properties                                                              *)

HbFitters == {"fit_hb_line.fit_free_one_component",
              "fit_hb_line.fit_free_two_components",
              "fit_hb_line.fit_fixed_one_component",
              "fit_hb_line.fit_fixed_two_components"}

HaFitters == {"fit_nii_ha_lines.fit_free_ha_one_component",
              "fit_nii_ha_lines.fit_free_ha_two_components",
              "fit_nii_ha_lines.fit_fixed_one_component",
              "fit_nii_ha_lines.fit_fixed_two_components"}

FreeTwoFitters == {"fit_hb_line.fit_free_two_components",
                   "fit_nii_ha_lines.fit_free_ha_two_components"}

FixedTwoFitters == {"fit_hb_line.fit_fixed_two_components",
                    "fit_nii_ha_lines.fit_fixed_two_components"}

FixedFitters == FixedTwoFitters \cup
                {"fit_hb_line.fit_fixed_one_component",
                 "fit_nii_ha_lines.fit_fixed_one_component"}

SiiFitters == {"fit_sii_lines.fit_one_component",
               "fit_sii_lines.fit_two_components"}

OiiiFitters == {"fit_oiii_lines.fit_one_component",
                "fit_oiii_lines.fit_two_components"}

\* a Hbeta or [NII]+Ha fitter has returned
BroadReturned == pc = "returned" /\ fitter \in HbFitters \cup HaFitters

NarrowName == IF fitter \in HbFitters THEN "hb_n" ELSE "ha_n"
OutName == IF fitter \in HbFitters THEN "hb_out" ELSE "ha_out"
BroadName == IF fitter \in HbFitters THEN "hb_b" ELSE "ha_b"

\* the quantities of the selection block, from the fitter's locals
Del == del_rchi2(loc.rchi2_no_broad, loc.rchi2_broad)
SigN == sigma(loc.gfit_broad, NarrowName)
SigB == sigma(loc.gfit_broad, BroadName)
SigOut == sigma(loc.gfit_broad, OutName)
Fwhm == fwhm(SigB)

WithBroadReturned ==
    /\ ret.gfit = loc.gfit_broad
    /\ ret.rchi2 = loc.rchi2_broad

NoBroadReturned ==
    /\ ret.gfit = loc.gfit_no_broad
    /\ ret.rchi2 = loc.rchi2_no_broad

\* C1: in all eight Hbeta/Halpha fitters the with-broad model is returned
\* only if del_rchi2 >= 20, sigma(broad) > sigma(narrow) and
\* sigma(narrow) >= 40 km/s; otherwise the no-broad model is returned.
C1_BroadOnlyIfAllThree ==
    BroadReturned =>
        /\ WithBroadReturned => (Del >= 200 /\ SigB > SigN /\ SigN >= 400)
        /\ ~WithBroadReturned => NoBroadReturned

\* C2: in the four [NII]+Ha fitters a broad Ha component with FWHM below
\* 300 km/s always leads to the no-broad model.
C2_FwhmFloor ==
    (BroadReturned /\ fitter \in HaFitters /\ Fwhm < 3000000) => NoBroadReturned

C2_Witness ==
    /\ BroadReturned /\ fitter \in HaFitters
    /\ Fwhm < 3000000 /\ Del >= 200 /\ SigB > SigN /\ SigN >= 400
    /\ NoBroadReturned

WidthsOK ==
    /\ SigB > SigN
    /\ SigN >= 400
    /\ fitter \in HaFitters => Fwhm >= 3000000

C4_AllTwoComponentFitters ==
    (BroadReturned /\ fitter \in FreeTwoFitters \cup FixedTwoFitters
       /\ WithBroadReturned)
    => sigma(ret.gfit, BroadName) >= sigma(ret.gfit, OutName)

\* C4 amended: the two free-width two-component fitters exchange the broad
\* and outflow components when sigma(broad) < sigma(outflow), so at the
\* acceptance test, and in every with-broad model they return, the broad
\* component is at least as wide as the outflow component.
C4_FreeTwoSwap ==
    (BroadReturned /\ fitter \in FreeTwoFitters) =>
        /\ SigB >= SigOut
        /\ WithBroadReturned =>
             sigma(ret.gfit, BroadName) >= sigma(ret.gfit, OutName)

C4_Witness ==
    /\ BroadReturned /\ fitter \in FreeTwoFitters
    /\ 6 \in Bits(ret.flag_bits)
    /\ WithBroadReturned
    /\ sigma(ret.gfit, BroadName) > sigma(ret.gfit, OutName)

\* C5: flag bit 5 is returned exactly when sigma(broad) < sigma(narrow) in
\* the with-broad fit, and then the no-broad model, its reduced chi-square
\* and its degrees of freedom are returned.
C5_FlagFive ==
    BroadReturned =>
        /\ (5 \in Bits(ret.flag_bits)) <=> (SigB < SigN)
        /\ (5 \in Bits(ret.flag_bits)) =>
             /\ NoBroadReturned
             /\ ret.n_dof = loc.n_free_no_broad

C5_Witness ==
    /\ BroadReturned /\ 5 \in Bits(ret.flag_bits) /\ Del >= 200
    /\ SigB < SigN /\ NoBroadReturned

\* the table of C6, with continuum: << no broad, broad >>
DofTable ==
    ("fit_sii_lines.fit_one_component" :> << 5, 5 >>) @@
    ("fit_sii_lines.fit_two_components" :> << 8, 8 >>) @@
    ("fit_oiii_lines.fit_one_component" :> << 4, 4 >>) @@
    ("fit_oiii_lines.fit_two_components" :> << 7, 7 >>) @@
    ("fit_hb_line.fit_free_one_component" :> << 4, 7 >>) @@
    ("fit_hb_line.fit_free_two_components" :> << 7, 10 >>) @@
    ("fit_hb_line.fit_fixed_one_component" :> << 3, 6 >>) @@
    ("fit_hb_line.fit_fixed_two_components" :> << 5, 8 >>) @@
    ("fit_nii_ha_lines.fit_free_ha_one_component" :> << 6, 9 >>) @@
    ("fit_nii_ha_lines.fit_free_ha_two_components" :> << 11, 14 >>) @@
    ("fit_nii_ha_lines.fit_fixed_one_component" :> << 5, 8 >>) @@
    ("fit_nii_ha_lines.fit_fixed_two_components" :> << 9, 12 >>)

\* C6: the degrees of freedom depend only on the complex, the fit variant,
\* whether the broad component was accepted, and fit_cont, with the values
\* of the table; without continuum they are one less.
C6_DofTable ==
    pc = "returned" =>
        ret.n_dof = DofTable[fitter][IF BroadReturned /\ WithBroadReturned
                                     THEN 2 ELSE 1]
                    - (IF fit_cont THEN 0 ELSE 1)

C6_Witness ==
    /\ BroadReturned /\ fitter = "fit_nii_ha_lines.fit_fixed_two_components"
    /\ WithBroadReturned /\ ~fit_cont /\ ret.n_dof = 11

\* C7: the reported n_dof equals the n_free_params used for the returned
\* reduced chi-square and the number of parameters of the returned model
\* that are neither tied nor fixed.
C7_DofIsFreeParams ==
    pc = "returned" =>
        /\ ret.n_dof = ret.n_free_params
        /\ ret.n_dof = NFreeParams(ret.gfit)

Has(m, names) == names \subseteq Names(m)

DoubletTied(m, weak, strong, ratio, offset) ==
    /\ Has(m, {weak, strong})
    /\ 100 * m.g[strong].amplitude = ratio * m.g[weak].amplitude
    /\ m.g[strong].mean = m.g[weak].mean + offset

\* C8: every model returned by the [OIII] fitters keeps the 2.98 amplitude
\* ratio and the 47.934 offset of the doublet (and of the _out pair of the
\* two-component fit), and every model returned by the [NII]+Ha fitters
\* keeps the 2.96 ratio and the 35.425 offset (and of the _out pair).
C8_DoubletTies ==
    /\ (pc = "returned" /\ fitter \in OiiiFitters) =>
          /\ DoubletTied(ret.gfit, "oiii4959", "oiii5007", 298, 47934)
          /\ fitter = "fit_oiii_lines.fit_two_components" =>
               DoubletTied(ret.gfit, "oiii4959_out", "oiii5007_out", 298, 47934)
    /\ (pc = "returned" /\ fitter \in HaFitters) =>
          /\ DoubletTied(ret.gfit, "nii6548", "nii6583", 296, 35425)
          /\ fitter \in {"fit_nii_ha_lines.fit_free_ha_two_components",
                         "fit_nii_ha_lines.fit_fixed_two_components"} =>
               DoubletTied(ret.gfit, "nii6548_out", "nii6583_out", 296, 35425)

MeanOffset(m, weak, strong) == m.g[strong].mean - m.g[weak].mean

\* C9: the offset each mean tie adds is the difference of the two rest
\* wavelengths of its doublet, the same in every fitter.
C9_RestSeparation ==
    pc = "returned" =>
        /\ Has(ret.gfit, {"sii6716", "sii6731"}) =>
             MeanOffset(ret.gfit, "sii6716", "sii6731") = SII6731 - SII6716
        /\ Has(ret.gfit, {"oiii4959", "oiii5007"}) =>
             MeanOffset(ret.gfit, "oiii4959", "oiii5007") = OIII5007 - OIII4959
        /\ Has(ret.gfit, {"nii6548", "nii6583"}) =>
             MeanOffset(ret.gfit, "nii6548", "nii6583") = NII6583 - NII6548

StdTied(m, name, sii, temp) ==
    /\ Has(m, {name})
    /\ m.g[name].stddev =
         ScaleStd(m.g[name].mean, sii.g[temp].mean, sii.g[temp].stddev)

\* the part of C10 about the fixed-width fitters
C10_FixedWidths ==
    (BroadReturned /\ fitter \in FixedFitters) =>
        /\ StdTied(ret.gfit, NarrowName, sii_bestfit, "sii6716")
        /\ fitter \in FixedTwoFitters =>
             StdTied(ret.gfit, OutName, sii_bestfit, "sii6716_out")

\* the part of C10 about the [NII] widths in all four [NII]+Ha fitters
C10_NiiWidths ==
    (BroadReturned /\ fitter \in HaFitters) =>
        /\ StdTied(ret.gfit, "nii6548", sii_bestfit, "sii6716")
        /\ StdTied(ret.gfit, "nii6583", sii_bestfit, "sii6716")
        /\ fitter \in {"fit_nii_ha_lines.fit_free_ha_two_components",
                       "fit_nii_ha_lines.fit_fixed_two_components"} =>
             /\ StdTied(ret.gfit, "nii6548_out", sii_bestfit, "sii6716_out")
             /\ StdTied(ret.gfit, "nii6583_out", sii_bestfit, "sii6716_out")

\* C10: every model returned by a fixed-width fitter has its narrow and
\* outflow widths equal to the template-scaled [SII] widths, and the [NII]
\* widths are tied to the template in all four [NII]+Ha fitters.
C10_TemplateWidths == C10_FixedWidths /\ C10_NiiWidths

FreeFitters == {"fit_hb_line.fit_free_one_component",
                "fit_hb_line.fit_free_two_components",
                "fit_nii_ha_lines.fit_free_ha_one_component",
                "fit_nii_ha_lines.fit_free_ha_two_components"}

RestOf == IF fitter \in HbFitters THEN HB_REST ELSE HA_REST

\* equal up to one unit of the fixed-point representation
Near(a, b) == (a - b) \in -1 .. 1

\* [(1 - frac_temp/100) sigma, (1 + frac_temp/100) sigma] of a template
\* component, in wavelength units at the line's rest wavelength
FracBounds(temp, frac_temp, rest) ==
    LET sig == sigma(sii_bestfit, temp)
    IN << velspace_to_lamspace(((100 - frac_temp) * sig) \div 100, rest),
          velspace_to_lamspace(((100 + frac_temp) * sig) \div 100, rest) >>

BoundsAsClaimed(temp, line) ==
    LET bn == template_bounds(sii_bestfit, temp, FracTemp, RestOf)
        cl == FracBounds(temp, FracTemp, RestOf)
    IN /\ Near(bn[1], cl[1]) /\ Near(bn[2], cl[2])
       /\ bn[1] <= bn[2]
       /\ bn[1] <= sii_bestfit.g[temp].stddev
       /\ sii_bestfit.g[temp].stddev <= bn[2]
       /\ loc.gfit_no_broad.g[line].stddev \in bn[1] .. bn[2]

\* C11: in the free-width fitters the bounds of the narrow stddev are
\* (1 -/+ frac_temp/100) times the template dispersion of sii6716 converted
\* at the line's rest wavelength, those of the outflow stddev are built the
\* same way from sii6716_out, the lower bound does not exceed the upper one
\* and the initial stddev (the template's) lies inside for frac_temp = 60.
C11_TemplateBounds ==
    (pc = "returned" /\ fitter \in FreeFitters) =>
        /\ BoundsAsClaimed("sii6716", NarrowName)
        /\ fitter \in FreeTwoFitters => BoundsAsClaimed("sii6716_out", OutName)

C11_Witness ==
    /\ pc = "returned" /\ fitter \in FreeTwoFitters
    /\ loc.gfit_no_broad.g[NarrowName].stddev =
         template_bounds(sii_bestfit, "sii6716", FracTemp, RestOf)[1]
    /\ loc.gfit_no_broad.g[OutName].stddev =
         template_bounds(sii_bestfit, "sii6716_out", FracTemp, RestOf)[2]
    /\ loc.gfit_no_broad.g[OutName].stddev > loc.gfit_no_broad.g[NarrowName].stddev

\* C19: every fitter returns a result on every window, degenerate ones
\* included (an empty window, a window without a pixel in a sub-range used
\* for the amplitude estimate); no call raises an exception.
C19_NoException ==
    pc # "raised" /\ exc = "none"

C14_GetParameters ==
    result.f = "get_parameters" =>
        /\ result.exc = "none"
        /\ DOMAIN result.params = Range(args.models) \X Quantities
        /\ \A model \in Range(args.models) :
             IF model \in Names(args.gfit)
             THEN LET g == args.gfit.g[model]
                  IN /\ result.params[<< model, "amplitude" >>] = g.amplitude
                     /\ result.params[<< model, "mean" >>] = g.mean
                     /\ result.params[<< model, "std" >>] = g.stddev
                     /\ result.params[<< model, "sigma" >>] =
                          lamspace_to_velspace(g.stddev, g.mean)
                     /\ result.params[<< model, "flux" >>] =
                          compute_emline_flux(g.amplitude, g.stddev)
             ELSE \A q \in Quantities : result.params[<< model, q >>] = 0

\* the rows of the table in which amplitude, mean and std are all positive
Positive(row) == row.amplitude > 0 /\ row.mean > 0 /\ row.std > 0

Sel(table) == {i \in DOMAIN table : Positive(table[i])}

RECURSIVE SumOver(_, _, _)
SumOver(table, col, rows) ==
    IF rows = {} THEN 0
    ELSE LET i == CHOOSE j \in rows : TRUE
         IN table[i][col] + SumOver(table, col, rows \ {i})

MeanOver(table, col, rows) == SumOver(table, col, rows) \div Cardinality(rows)

RECURSIVE SumSqDev(_, _, _, _)
SumSqDev(table, col, rows, mu) ==
    IF rows = {} THEN 0
    ELSE LET i == CHOOSE j \in rows : TRUE
         IN (table[i][col] - mu) * (table[i][col] - mu)
              + SumSqDev(table, col, rows \ {i}, mu)

StdOver(table, col, rows) ==
    np_sqrt(SumSqDev(table, col, rows, MeanOver(table, col, rows))
              \div Cardinality(rows))

\* C15: get_bestfit_parameters computes every aggregated mean and standard
\* deviation over exactly the rows in which amplitude > 0, mean > 0 and
\* std > 0 hold together; when no row does, all fourteen aggregated values
\* of the component are 0, never NaN.
C15_AggregateOverPositiveRows ==
    result.f = "get_bestfit_parameters" =>
        LET t == args.table
            rows == Sel(t)
            p == result.params
        IN IF rows = {}
           THEN \A k \in Aggregated : p[k] = 0
           ELSE /\ p.amplitude = MeanOver(t, "amplitude", rows)
                /\ p.amplitude_err = StdOver(t, "amplitude", rows)
                /\ p.mean = MeanOver(t, "mean", rows)
                /\ p.mean_err = StdOver(t, "mean", rows)
                /\ p.flux_fits = MeanOver(t, "flux", rows)
                /\ p.flux_err_fits = StdOver(t, "flux", rows)
                /\ p.sigma_fits = MeanOver(t, "sigma", rows)
                /\ p.sigma_err_fits = StdOver(t, "sigma", rows)
                /\ \A k \in Aggregated : p[k] # NaN

Identical(table) == \A i \in DOMAIN table : table[i] = table[1]

\* every error is 0 and every aggregated value is that of the row
SameAsRow(row) ==
    /\ \A k \in {"amplitude_err", "mean_err", "std_err", "sigma_err", "flux_err",
                  "flux_err_fits", "sigma_err_fits"} : result.params[k] = 0
    /\ result.cont.continuum_err = 0
    /\ result.params.amplitude = row.amplitude
    /\ result.params.mean = row.mean
    /\ result.params.std = row.std
    /\ result.params.sigma = row.sigma
    /\ result.params.flux = row.flux
    /\ result.params.flux_fits = row.flux
    /\ result.params.sigma_fits = row.sigma
    /\ result.cont.continuum = row.continuum

Family(m, out) == IF out \in Names(m) THEN "two" ELSE "one"

OrigBranch ==
    [sii |-> Family(mc.fits_orig.sii, "sii6716_out"),
     oiii |-> Family(mc.fits_orig.oiii, "oiii5007_out")]

Handled(n, family) ==
    /\ n # None
    /\ n \in {2, 3, 4, 5}
    /\ (n \in {2, 3}) <=> (family = "one")

\* C12: in every resampled iteration n_sii and n_oiii are not None and fall in
\* a handled case, {2,3} for the one-component and {4,5} for the two-component
\* architecture selected on the original spectrum; the family selection is not
\* run again; sii_dof and oiii_dof are the same in all rows of the stacked table.
C12_ArchitectureFixed ==
    /\ exc # "UnboundLocalError"
    /\ mc.kk >= 0 =>
         /\ Handled(mc.n_sii, OrigBranch.sii)
         /\ Handled(mc.n_oiii, OrigBranch.oiii)
         /\ mc.pc \in {"sii", "oiii", "hb", "nii_ha", "params"} =>
               /\ mc.branch.sii \in {"none", OrigBranch.sii}
               /\ mc.branch.oiii \in {"none", OrigBranch.oiii}
         /\ \A i \in DOMAIN mc.tables :
               /\ mc.branches[i] = OrigBranch
               /\ mc.tables[i].dof.sii = mc.tables[1].dof.sii
               /\ mc.tables[i].dof.oiii = mc.tables[1].dof.oiii

C12_Witness ==
    /\ mc.pc = "done"
    /\ fit_cont = FALSE
    /\ Len(mc.tables) = NIter
    /\ OrigBranch = [sii |-> "two", oiii |-> "one"]
    /\ mc.n_sii = 5 /\ mc.n_oiii = 3

Order == << "sii", "oiii", "hb", "nii_ha" >>

IsPrefix(s, t) == Len(s) <= Len(t) /\ \A i \in DOMAIN s : s[i] = t[i]

SameParameters(m1, m2) == m1.g = m2.g /\ m1.tied = m2.tied /\ m1.fixed = m2.fixed

\* C13: in a call of fit_spectra_iteration the complexes are fitted once each
\* in the order [SII], [OIII], Hb, [NII]+Ha; the Hb fit and the [NII]+Ha fit
\* receive the [SII] best fit found before them, the same one; once the Hb fit
\* has started the parameters of the [SII] and [OIII] fits do not change.
C13_OnePass ==
    [][/\ IsPrefix(mc'.ran, Order)
       /\ mc.pc = "hb" =>
            /\ Range(mc.ran) = {"sii", "oiii"}
            /\ mc.gfit.sii # NoModel
            /\ mc'.template.hb = mc.gfit.sii
       /\ mc.pc = "nii_ha" =>
            /\ mc'.template.nii_ha = mc.gfit.sii
            /\ mc'.template.nii_ha = mc.template.hb
       /\ mc.pc \in {"hb", "nii_ha", "params"} =>
            /\ SameParameters(mc'.gfit.sii, mc.gfit.sii)
            /\ SameParameters(mc'.gfit.oiii, mc.gfit.oiii)]_vars

C13_Witness ==
    /\ mc.pc = "loop"
    /\ mc.kk >= 1
    /\ fit_cont = FALSE
    /\ mc.ran = Order
    /\ mc.gfit.sii.cont.name = "sii_cont"
    /\ mc.template.hb # mc.gfit.sii
    /\ SameParameters(mc.template.hb, mc.gfit.sii)
    /\ mc.template.nii_ha = mc.template.hb

HbDofs(fc, out, broad) ==
    IF out THEN {hb_free_two_n_dof(broad, fc), hb_fixed_two_n_dof(broad, fc)}
    ELSE {hb_free_one_n_dof(broad, fc), hb_fixed_one_n_dof(broad, fc)}

HaDofs(fc, out, broad) ==
    IF out THEN {ha_free_two_n_dof(broad, fc), ha_fixed_two_n_dof(broad, fc)}
    ELSE {ha_free_one_n_dof(broad, fc), ha_fixed_one_n_dof(broad, fc)}

FinalDofAsModel ==
    LET f == mc.final.fits_final
        dof == mc.final.dof
    IN /\ dof.hb \in HbDofs(fit_cont, "hb_out" \in Names(f.hb), "hb_b" \in Names(f.hb))
       /\ dof.nii_ha \in HaDofs(fit_cont, "ha_out" \in Names(f.nii_ha),
                                "ha_b" \in Names(f.nii_ha))
       /\ dof.oiii = IF "oiii5007_out" \in Names(f.oiii)
                     THEN oiii_dof_two(fit_cont) ELSE oiii_dof_one(fit_cont)
       /\ dof.sii = IF "sii6716_out" \in Names(f.sii)
                    THEN sii_dof_two(fit_cont) ELSE sii_dof_one(fit_cont)

\* C17: the dof of the final reduced chi-square of each complex is the number
\* of free parameters of the architecture of the final model: with the three
\* parameters of the broad component exactly when the final model contains
\* hb_b (ha_b), with those of the outflow components exactly when it contains
\* them.
C17_FinalDof == mc.pc = "done" => FinalDofAsModel

Broad(name, k) == {i \in DOMAIN mc.won : name \in mc.won[i][k]}

StdFloor == IF fitter \in HbFitters THEN 50 ELSE 85

FloorHolds(m) ==
    \A name \in Names(m) \cap {NarrowName, OutName} : m.g[name].stddev >= StdFloor

\* C29: in the free-width Hb and Ha fitters the stddev of the narrow and of the
\* outflow component of every returned model is at least the floor given at
\* construction, 0.5 A for hb_n and hb_out, 0.85 A for ha_n and ha_out.
C29_StdFloor ==
    (pc = "returned" /\ fitter \in FreeFitters) => FloorHolds(ret.gfit)

SwapFired == pc = "returned" /\ fitter \in FreeTwoFitters /\ 6 \in Bits(ret.flag_bits)

ContOf == IF fitter \in HbFitters THEN "hb_cont" ELSE "nii_ha_cont"

\* C25: when the swap of outflow and broad fires in a free two-component
\* fitter, the with-broad model keeps every other component of the fitted
\* model with its values: the continuum when fit_cont is True, and the
\* components of the fit without broad component other than the outflow.
C25_SwapKeepsComponents ==
    SwapFired =>
        /\ fit_cont => loc.gfit_broad.cont.name = ContOf
        /\ loc.gfit_broad.cont.name = loc.gfit_no_broad.cont.name
        /\ Names(loc.gfit_broad) = Names(loc.gfit_no_broad) \cup {BroadName}

-----------------------------------------------------------------------------
(* The ties of fit_sii_lines.fit_two_components, evaluated at parameter     *)
(* values admitted by the bounds of the constructors: amplitudes in        *)
(* (0.0, None), stddev in (0.8, None) and (1.6, None), mean unbounded.      *)

TieAmps == {0, 50, 100}

TieMeans == {0, SII6716}

TieStds == {80, 290}

TieInit ==
    /\ pc = "idle"
    /\ fit_cont = FALSE
    /\ fitter = "none"
    /\ sii_bestfit = NoModel
    /\ loc = NoLoc
    /\ ret = NoRet
    /\ window = RegularWindow
    /\ exc = "none"
    /\ args \in [f : {"ties"}, amp6716 : TieAmps, amp6731 : TieAmps,
                  amp6716_out : TieAmps, mean6716 : TieMeans, stddev6716 : TieStds]
    /\ result = NoResult
    /\ mc = NoRun

\* one evaluation of the tied parameters of sii6731 and sii6731_out, as the
\* fitter does at every step of the fit
EvalTies ==
    /\ args.f = "ties"
    /\ result = NoResult
    /\ LET mean6731 == tie_mean_sii_two(args.mean6716)
       IN result' = [f |-> "ties",
                     mean6731 |-> mean6731,
                     stddev6731 |-> tie_std_sii(args.stddev6716, mean6731, args.mean6716),
                     amp6731_out |-> tie_amp_sii(args.amp6731, args.amp6716,
                                                 args.amp6716_out)]
    /\ UNCHANGED << pc, fit_cont, fitter, sii_bestfit, loc, ret, window, exc, args, mc >>

TieSpec == TieInit /\ [][EvalTies]_vars

Defined(x) == x \notin {NaN, PosInf, NegInf}

\* C30: every tie of fit_sii_lines.fit_two_components has a defined value (no
\* division by zero) at every parameter value admitted by the bounds: the
\* amplitude tie of sii6731_out when the amplitude of sii6716 is 0, and the
\* stddev tie for every admitted mean.
C30_TiesDefined ==
    result.f = "ties" =>
        /\ Defined(result.amp6731_out)
        /\ Defined(result.stddev6731)
        /\ Defined(result.mean6731)


-----------------------------------------------------------------------------
(* The Monte-Carlo loop of fit_emline_spectra over the pixels of a          *)
(* spectrum, for two executions on the same inputs.  Flux and errors are   *)
(* in hundredths, the rows of the resolution matrix in quarters.           *)

NPix == 2

Pixels == 1..NPix

Execs == {1, 2}

\* the deviates the generator can return, in units of sigma
Deviates == {-1, 0, 1}

McLam == [i \in Pixels |-> 6716 + 15 * (i - 1)]

McFluxes == {[i \in Pixels |-> 200 * i - 100], [i \in Pixels |-> 600 - 200 * i]}

McIvars ==
    {[i \in Pixels |-> 1],
     [i \in Pixels |-> IF i = 1 THEN 1 ELSE 4],
     [i \in Pixels |-> IF i = 1 THEN 0 ELSE 1]}

\* the identity, and a band that mixes neighbouring pixels
McResolutions ==
    {[i \in Pixels |-> [j \in Pixels |-> IF i = j THEN 4 ELSE 0]],
     [i \in Pixels |-> [j \in Pixels |->
         IF i = j THEN 3 ELSE IF i - j \in {-1, 1} THEN 1 ELSE 0]]}

\* the component counts of the [SII] and [OIII] fits of the original spectrum
McCounts == {<< 2, 2 >>, << 4, 4 >>}

\* err_rest = 1/np.sqrt(ivar_rest); err_rest[~np.isfinite(err_rest)] = 0.0
err_rest_of(ivar_rest) ==
    [i \in Pixels |-> IF ivar_rest[i] <= 0 THEN 0 ELSE 100 \div np_sqrt(ivar_rest[i])]

\* random.gauss(0, err_rest) of the standard library: mu + z * sigma with one
\* deviate z per call; sigma is the array err_rest, so z multiplies every pixel
random_gauss(err_rest) ==
    {[i \in Pixels |-> z * err_rest[i]] : z \in Deviates}

\* res_matrix.dot(noise_spec)
res_dot(res_matrix, noise_spec) ==
    [i \in Pixels |->
        SumSeq([j \in Pixels |-> res_matrix[i][j] * noise_spec[j]]) \div 4]

vec_add(a, b) == [i \in Pixels |-> a[i] + b[i]]

resample_accumulating(flam_rest, flam_last, to_add_spec) == vec_add(flam_last, to_add_spec)

\* flam_new = flam_rest + to_add_spec
resample(flam_rest, flam_last, to_add_spec) == vec_add(flam_rest, to_add_spec)

\* the fit of one spectrum is a function of the arguments of the call: the
\* fitted amplitude is taken to be the peak of the flux, the estimate the
\* fitters start from; the component counts are those passed in
mc_iteration(lam, flam, ivar, n_sii, n_oiii, call) ==
    [amplitude |-> Max(Range(flam)), n_sii |-> n_sii, n_oiii |-> n_oiii, call |-> call]

tables_with_original(t_params) == << t_params >>

\* tables = []
tables_init(t_params) == << >>

NoExec ==
    [pc |-> "start", lam_rest |-> << >>, flam_rest |-> << >>, ivar_rest |-> << >>,
     err_rest |-> << >>, n_sii |-> None, n_oiii |-> None, kk |-> 0,
     flam_new |-> << >>, calls |-> << >>, draws |-> << >>, tables |-> << >>,
     final |-> [f |-> "none"]]

McInit ==
    /\ pc = "idle"
    /\ fit_cont = FALSE
    /\ fitter = "none"
    /\ sii_bestfit = NoModel
    /\ loc = NoLoc
    /\ ret = NoRet
    /\ window = RegularWindow
    /\ exc = "none"
    /\ args \in [f : {"fit_emline_spectra"}, lam_rest : {McLam},
                 flam_rest : McFluxes, ivar_rest : McIvars,
                 res_matrix : McResolutions, counts : McCounts]
    /\ result = NoResult
    /\ mc = [pc |-> "mc", ex |-> [e \in Execs |-> NoExec]]

McUnchanged == << pc, fit_cont, fitter, sii_bestfit, loc, ret, window, exc, args, result >>

\* lines 84-97: the spectrum is read, the original spectrum is fitted once, the
\* component counts are taken from that fit
McOriginal(e) ==
    LET x == mc.ex[e]
        call == [lam |-> args.lam_rest, flam |-> args.flam_rest, ivar |-> args.ivar_rest,
                 n_sii |-> None, n_oiii |-> None]
        t_params == mc_iteration(call.lam, call.flam, call.ivar,
                                 args.counts[1], args.counts[2], 1)
    IN /\ mc.pc = "mc"
       /\ x.pc = "start"
       /\ mc' = [mc EXCEPT !.ex[e] =
                   [x EXCEPT !.pc = "loop",
                             !.lam_rest = args.lam_rest,
                             !.flam_rest = args.flam_rest,
                             !.ivar_rest = args.ivar_rest,
                             !.err_rest = err_rest_of(args.ivar_rest),
                             !.flam_new = args.flam_rest,
                             !.calls = << call >>,
                             !.tables = tables_init(t_params),
                             !.n_sii = t_params.n_sii,
                             !.n_oiii = t_params.n_oiii]]
       /\ UNCHANGED McUnchanged

\* lines 99-106: one pass of the loop
McIteration(e) ==
    LET x == mc.ex[e]
    IN /\ mc.pc = "mc"
       /\ x.pc = "loop"
       /\ x.kk < NIter
       /\ \E noise_spec \in random_gauss(x.err_rest) :
             LET to_add_spec == res_dot(args.res_matrix, noise_spec)
                 flam_new == resample(x.flam_rest, x.flam_new, to_add_spec)
                 call == [lam |-> x.lam_rest, flam |-> flam_new, ivar |-> x.ivar_rest,
                          n_sii |-> x.n_sii, n_oiii |-> x.n_oiii]
                 t_params == mc_iteration(call.lam, call.flam, call.ivar,
                                          call.n_sii, call.n_oiii, Len(x.calls) + 1)
             IN mc' = [mc EXCEPT !.ex[e] =
                         [x EXCEPT !.kk = x.kk + 1,
                                   !.flam_new = flam_new,
                                   !.draws = Append(x.draws, noise_spec),
                                   !.calls = Append(x.calls, call),
                                   !.tables = Append(x.tables, t_params)]]
       /\ UNCHANGED McUnchanged

\* lines 108-184: the rows are stacked and averaged, the final reduced
\* chi-squares are computed against flam_rest
McFinal(e) ==
    LET x == mc.ex[e]
    IN /\ mc.pc = "mc"
       /\ x.pc = "loop"
       /\ x.kk = NIter
       /\ mc' = [mc EXCEPT !.ex[e] =
                   [x EXCEPT !.pc = "done",
                             !.final = [f |-> "tfinal",
                                        amplitude |->
                                            np_nanmean([k \in DOMAIN x.tables |->
                                                            x.tables[k].amplitude]),
                                        rows |-> Len(x.tables),
                                        rchi2_lam |-> x.lam_rest,
                                        rchi2_flam |-> x.flam_rest,
                                        rchi2_ivar |-> x.ivar_rest]]]
       /\ UNCHANGED McUnchanged

McNext == \E e \in Execs : McOriginal(e) \/ McIteration(e) \/ McFinal(e)

McSpec == McInit /\ [][McNext]_vars


\* ---- the Monte-Carlo loop

ExecDone(e) == mc.pc = "mc" /\ mc.ex[e].pc = "done"

C24_LoopFrame ==
    \A e \in Execs : (mc.pc = "mc" /\ mc.ex[e].pc # "start") =>
        LET x == mc.ex[e]
        IN /\ x.lam_rest = args.lam_rest
           /\ x.flam_rest = args.flam_rest
           /\ x.ivar_rest = args.ivar_rest
           /\ \A k \in DOMAIN x.draws :
                 x.calls[k + 1].flam =
                     vec_add(args.flam_rest, res_dot(args.res_matrix, x.draws[k]))
           /\ \A d \in Execs : \A j \in DOMAIN mc.ex[d].draws : \A k \in DOMAIN x.draws :
                 mc.ex[d].draws[j] = x.draws[k] =>
                     [mc.ex[d].tables[j] EXCEPT !.call = 0] = [x.tables[k] EXCEPT !.call = 0]
           /\ x.pc = "done" =>
                 /\ x.final.rchi2_flam = args.flam_rest
                 /\ x.final.rchi2_lam = args.lam_rest
                 /\ x.final.rchi2_ivar = args.ivar_rest

\* two passes with non-zero noise, the second with the draw of the first
C24_Witness ==
    \E e \in Execs : /\ ExecDone(e)
                     /\ mc.ex[e].draws[1] = mc.ex[e].draws[2]
                     /\ mc.ex[e].calls[2].flam # args.flam_rest
                     /\ mc.ex[e].tables[1].amplitude # Max(Range(args.flam_rest))

\* C28: the noise of a pass has one independent deviate per pixel, scaled by
\* the error of the pixel: every vector of per-pixel deviates is a possible
\* draw, the deviate is not the same number for all pixels.
C28_IndependentPerPixel ==
    \A e \in Execs : (mc.pc = "mc" /\ mc.ex[e].pc = "loop") =>
        random_gauss(mc.ex[e].err_rest) =
            {[i \in Pixels |-> z[i] * mc.ex[e].err_rest[i]] : z \in [Pixels -> Deviates]}

\* C21: two executions on the same inputs give the same final record.
C21_SameFinal ==
    (ExecDone(1) /\ ExecDone(2)) => mc.ex[1].final = mc.ex[2].final


-----------------------------------------------------------------------------
(* run_desi_emfit: the rows of the input table are mapped over a pool of    *)
(* worker processes; each task is one call of fit_emline_spectra.          *)

NTargets == 3

NWorkers == 2

TargetIds == 1..NTargets

Workers == 1..NWorkers

\* f'output/single_files/emfit-{targetid}.fits'
single_file(targetid) == << "output/single_files/emfit", targetid >>

Idle == [st |-> "idle", task |-> 0]

starmap_unordered(results, finished) == [k \in DOMAIN finished |-> results[finished[k]]]

\* pool.starmap returns the results in the order of the inputs
starmap(results, finished) == [i \in DOMAIN results |-> results[i]]

PoolInit ==
    /\ pc = "idle"
    /\ fit_cont = FALSE
    /\ fitter = "none"
    /\ sii_bestfit = NoModel
    /\ loc = NoLoc
    /\ ret = NoRet
    /\ window = RegularWindow
    /\ exc = "none"
    /\ args \in [f : {"run_desi_emfit"}, t : [1..NTargets -> TargetIds],
                 present : {{}, {single_file(1)}}]
    /\ result = NoResult
    /\ mc = [pc |-> "pool",
             inputs |-> << >>,
             next |-> 0,
             workers |-> [w \in Workers |-> Idle],
             results |-> << >>,
             finished |-> << >>,
             files |-> args.present,
             writes |-> {},
             catalog |-> << >>]

\* lines 29-34: the table is read, the pool is made, one task per row
PoolStart ==
    /\ mc.pc = "pool"
    /\ mc' = [mc EXCEPT !.pc = "map",
                        !.inputs = [i \in DOMAIN args.t |-> [TARGETID |-> args.t[i]]],
                        !.next = 1,
                        !.results = [i \in DOMAIN args.t |-> [f |-> "pending"]]]
    /\ UNCHANGED McUnchanged

\* an idle worker takes the next task of the queue
WorkerTake(w) ==
    /\ mc.pc = "map"
    /\ mc.workers[w].st = "idle"
    /\ mc.next <= Len(mc.inputs)
    /\ mc' = [mc EXCEPT !.workers[w] = [st |-> "fitting", task |-> mc.next],
                        !.next = mc.next + 1]
    /\ UNCHANGED McUnchanged

\* emline_fitting.py line 182: tfinal.write(path) without overwrite raises
\* when the file exists
WorkerWrite(w) ==
    LET i == mc.workers[w].task
        path == single_file(mc.inputs[i].TARGETID)
    IN /\ mc.pc = "map"
       /\ mc.workers[w].st = "fitting"
       /\ IF path \in mc.files
          THEN mc' = [mc EXCEPT !.workers[w].st = "raised"]
          ELSE mc' = [mc EXCEPT !.workers[w].st = "written",
                                !.files = mc.files \cup {path},
                                !.writes = mc.writes \cup
                                              {[path |-> path, worker |-> w, task |-> i]}]
       /\ UNCHANGED McUnchanged

\* the worker sends the record, or the exception, back to the parent
WorkerReturn(w) ==
    LET i == mc.workers[w].task
    IN /\ mc.pc = "map"
       /\ mc.workers[w].st \in {"written", "raised"}
       /\ mc' = [mc EXCEPT !.workers[w] = Idle,
                           !.finished = Append(mc.finished, i),
                           !.results[i] =
                               IF mc.workers[w].st = "raised"
                               THEN [f |-> "OSError"]
                               ELSE [f |-> "tfinal", TARGETID |-> mc.inputs[i].TARGETID,
                                     row |-> i]]
       /\ UNCHANGED McUnchanged

AllFinished == Len(mc.finished) = Len(mc.inputs)

\* lines 34-38: starmap returns when every task has finished and raises the
\* exception of a task that raised; the stacked table is written
PoolWrite ==
    /\ mc.pc = "map"
    /\ AllFinished
    /\ IF \E i \in DOMAIN mc.results : mc.results[i].f = "OSError"
       THEN mc' = [mc EXCEPT !.pc = "raised"]
       ELSE mc' = [mc EXCEPT !.pc = "written",
                             !.catalog = starmap(mc.results, mc.finished)]
    /\ UNCHANGED McUnchanged

PoolNext ==
    \/ PoolStart
    \/ \E w \in Workers : WorkerTake(w) \/ WorkerWrite(w) \/ WorkerReturn(w)
    \/ PoolWrite

PoolSpec == PoolInit /\ [][PoolNext]_vars

DistinctTargets == \A i, j \in DOMAIN args.t : args.t[i] = args.t[j] => i = j

-----------------------------------------------------------------------------
(* The doublets through the aggregation: every iteration is a fit of the    *)
(* one-component [SII], [OIII] and [NII] models with its ties; the rows of  *)
(* get_parameters are stacked and averaged by get_bestfit_parameters.      *)

DoubletNames == {"sii6716", "sii6731", "oiii4959", "oiii5007", "nii6548", "nii6583"}

\* the free parameters of one iteration: the amplitude of oiii4959 and nii6548,
\* the two free [SII] amplitudes, the shift of the means
DoubletFits == [a : {0, 100, 200}, a6716 : {0, 100}, a6731 : {0, 100}, dm : {0, 1000}]

doublet_fit(p) ==
    LET sii == sii_one_fit(FALSE, 0, p.a6716, p.a6731, p.dm, 290)
    IN sii.g @@ oiii_one_model(FALSE, 0, p.a, p.dm, 60).g @@ g_nii_one(sii, p.a, p.dm)

doublet_table(fits, name) ==
    [i \in DOMAIN fits |->
        LET g == doublet_fit(fits[i])[name]
        IN RowOf(g.amplitude, g.mean, g.stddev, 0)]

DoubletInit ==
    /\ pc = "idle"
    /\ fit_cont = FALSE
    /\ fitter = "none"
    /\ sii_bestfit = NoModel
    /\ loc = NoLoc
    /\ ret = NoRet
    /\ window = RegularWindow
    /\ exc = "none"
    /\ args \in [f : {"doublets"}, fits : UNION {[1..n -> DoubletFits] : n \in 1..NIter}]
    /\ result = NoResult
    /\ mc = NoRun

\* emline_fitting.py lines 129-137 for the six lines of the doublets
AggregateDoublets ==
    /\ args.f = "doublets"
    /\ result = NoResult
    /\ result' = [f |-> "doublets",
                  agg |-> [name \in DoubletNames |->
                              get_bestfit_component(doublet_table(args.fits, name))]]
    /\ UNCHANGED << pc, fit_cont, fitter, sii_bestfit, loc, ret, window, exc, args, mc >>

DoubletSpec == DoubletInit /\ [][AggregateDoublets]_vars

\* the amplitude tie, to the rounding of the mean
AmpTied(hi, lo, ratio) ==
    LET d == 100 * result.agg[hi].amplitude - ratio * result.agg[lo].amplitude
    IN d <= ratio /\ -d <= ratio

\* the mean tie of two lines that are both in the aggregated record
MeanTied(hi, lo, offset) ==
    (result.agg[hi].amplitude > 0 /\ result.agg[lo].amplitude > 0) =>
        result.agg[hi].mean - result.agg[lo].mean = offset

OiiiNiiTiesKept ==
    result.f = "doublets" =>
        /\ AmpTied("oiii5007", "oiii4959", 298)
        /\ AmpTied("nii6583", "nii6548", 296)
        /\ MeanTied("oiii5007", "oiii4959", 47934)
        /\ MeanTied("nii6583", "nii6548", 35425)

\* C26: when every iteration satisfies its ties, the aggregated record keeps
\* the amplitude ties of [OIII] and [NII] and, for each of the [OIII], [NII] and
\* [SII] doublets, the difference of the two aggregated means is the offset of
\* the tie.
C26_TiesAggregated ==
    result.f = "doublets" =>
        /\ OiiiNiiTiesKept
        /\ MeanTied("sii6731", "sii6716", 14329)


-----------------------------------------------------------------------------
(* The round trip of the four models of an iteration through the record of  *)
(* get_parameters and construct_fits.  The amplitudes of the optional      *)
(* components are inside their bounds (0.0, None).                          *)

RoundChoices ==
    [two : BOOLEAN, with_b : BOOLEAN, hb_out : {0, 50}, hb_b : {0, 30},
     out : {0, 50}, nii_out : {0, 50}, ha_out : {0, 50}]

\* the four models of an iteration, each with its continuum
round_models(p) ==
    LET sii == IF p.two THEN sii_two_model(TRUE, 3, 100, 0, 290, p.out, 400)
               ELSE sii_one_model(TRUE, 3, 100, 0, 290)
    IN [hb |-> IF p.two
               THEN hb_two_model(TRUE, 3, Gaussian1D(100, HB_REST, 60),
                        Gaussian1D(p.hb_out, HB_REST, 300), p.with_b,
                        Gaussian1D(p.hb_b, HB_REST, 400), {}, {})
               ELSE hb_free_one_model(TRUE, 3, Gaussian1D(100, HB_REST, 60),
                        p.with_b, Gaussian1D(p.hb_b, HB_REST, 400)),
        oiii |-> IF p.two THEN oiii_two_model(TRUE, 3, 100, 0, 60, p.out, 0, 300)
                 ELSE oiii_one_model(TRUE, 3, 100, 0, 60),
        nii_ha |-> IF p.two
                   THEN ha_two_model(TRUE, 3, g_nii_two(sii, 100, 0, p.nii_out, 0),
                            Gaussian1D(100, HA_REST, 290),
                            Gaussian1D(p.ha_out, HA_REST, 400), p.with_b,
                            Gaussian1D(p.hb_b, HA_REST, 600), {}, {})
                   ELSE ha_free_one_model(sii, TRUE, 3, 100, 0,
                            Gaussian1D(100, HA_REST, 290), p.with_b,
                            Gaussian1D(p.hb_b, HA_REST, 600)),
        sii |-> sii]

\* the record of one row of the table read by construct_fits(t, index)
round_record(t_params) ==
    [agg |-> [n \in AllModels |->
                [amplitude |-> t_params.params[<< n, "amplitude" >>],
                 mean |-> t_params.params[<< n, "mean" >>],
                 std |-> t_params.params[<< n, "std" >>],
                 flux |-> t_params.params[<< n, "flux" >>]]],
     cont |-> [k \in Complexes |-> [continuum |-> t_params.continuum[k]]]]

RoundInit ==
    /\ pc = "idle"
    /\ fit_cont = TRUE
    /\ fitter = "none"
    /\ sii_bestfit = NoModel
    /\ loc = NoLoc
    /\ ret = NoRet
    /\ window = RegularWindow
    /\ exc = "none"
    /\ args \in [f : {"construct_fits"}, p : RoundChoices]
    /\ result = NoResult
    /\ mc = NoRun

ConstructFits ==
    /\ args.f = "construct_fits"
    /\ result = NoResult
    /\ LET t == iteration_table(round_models(args.p), DofNone, TRUE)
           r == round_record(t.t_params)
       IN result' = [f |-> "construct_fits", M |-> t.fits,
                     fits |-> construct_fits(r.agg, r.cont)]
    /\ UNCHANGED << pc, fit_cont, fitter, sii_bestfit, loc, ret, window, exc, args, mc >>

RoundSpec == RoundInit /\ [][ConstructFits]_vars

SameModel(a, b) ==
    /\ a.cont.name = b.cont.name
    /\ a.cont.amplitude = b.cont.amplitude
    /\ DOMAIN a.g = DOMAIN b.g
    /\ \A n \in DOMAIN a.g \cap DOMAIN b.g :
          /\ a.g[n].amplitude = b.g[n].amplitude
          /\ a.g[n].mean = b.g[n].mean
          /\ a.g[n].stddev = b.g[n].stddev

\* C27: construct_fits, applied to the record that get_parameters makes of
\* the four models M and their continuum levels, returns models with the same
\* named components and the same amplitude, mean and stddev as M: an optional
\* component is rebuilt exactly when it is a component of M.
C27_RoundTrip ==
    result.f = "construct_fits" =>
        \A k \in Complexes : SameModel(result.fits[k], result.M[k])

\* the round trip of the models all of whose components have a positive amplitude
RoundTripPositive ==
    (result.f = "construct_fits" /\ args.p.hb_out > 0 /\ args.p.hb_b > 0
       /\ args.p.out > 0 /\ args.p.nii_out > 0 /\ args.p.ha_out > 0) =>
        \A k \in Complexes : SameModel(result.fits[k], result.M[k])

====
